---- MODULE Spec2Model ----
(***************************************************************************)
(* Model of the depth auto-exposure stream tests of librealsense           *)
(*   unit-tests/live/d400/test-depth-ae-toggle.py   (counter, timestamps   *)
(*                                                   and metadata log)     *)
(*   unit-tests/live/d400/test-depth-ae-metadata.py (counter and metadata  *)
(*                                                   log, steady state)    *)
(*                                                                         *)
(* Two execution contexts share one StreamingContext: the device's frame   *)
(* delivery thread, which runs StreamingContext.frame_callback, and the    *)
(* control thread, which runs the scenario (toggle_ae_while_streaming,     *)
(* wait_for_frames, verify_ae_metadata).  Every read or write of a shared  *)
(* field is one step.  Time is counted in polling ticks: one tick is one   *)
(* time.sleep(0.01) of wait_for_frames; the clock advances only while the  *)
(* control thread sleeps.                                                  *)
(***************************************************************************)
EXTENDS Integers, Sequences, FiniteSets, TLC

\* ------------------------------------------------------------------ bounds
\* num_toggles, frames_per_state, frames_between_toggles: the parameters of
\* toggle_ae_while_streaming, scaled down from (10, 10, 30).
NumToggles == 2
FramesPerState == 1
FramesBetweenToggles == 1
\* wait_for_frames' timeout, in polling ticks (10.0 s / 0.01 s in the code).
TimeoutTicks == 1
\* The device delivers at most this many frames in a rapid-toggle session.
MaxFrames == 4

\* ---------------------------------------------------------------- frames
\* A frame is modelled by its AUTO_EXPOSURE metadata: <<>> when the frame
\* does not carry the field, <<v>> when it carries the value v.
NoMeta == <<>>

\* What the device may attach to a frame in a rapid-toggle session.
DeviceFrames == {NoMeta, <<0>>, <<1>>}

supports_frame_metadata(frame) == frame # NoMeta

get_frame_metadata(frame) == frame[1]

VARIABLES
  \* StreamingContext
  frame_count, frame_timestamps, frame_ae_metadata,
  \* the delivery thread: its position in frame_callback, the frame it holds,
  \* and the frames the device has handed to frame_callback so far, in order
  cb_pc, cb_frame, delivered,
  \* host clock, in polling ticks
  now,
  \* the depth sensor: session state and enable_auto_exposure, and what became
  \* of a RuntimeError raised by a session call ("none" while none was raised)
  sensor, device_ae, exception,
  \* whether a stabilization barrier has succeeded since the last set_option
  stabilized,
  \* toggle_ae_while_streaming
  pc, current_ae_state, metadata_errors, toggle_count, toggle_idx,
  frames_before_stabilize, frames_before, result,
  \* verify_ae_metadata
  v_pc, v_i, v_end, v_expected, v_errors,
  \* wait_for_frames; w_deadline_count is the value frame_count had when the
  \* timeout elapsed (-1 while it has not elapsed)
  w_pc, w_target, w_timeout, w_frames_before, w_start_time, w_result,
  w_deadline_count,
  \* the steady-state helper verify_ae_metadata(depth_sensor, expected_ae_enabled,
  \* num_frames) of test-depth-ae-metadata.py and the test.check on its result
  s_pc, expected_ae_enabled, num_frames, depth_profile, received_frames,
  s_start_time,
  metadata_matches, frames_checked, check_passed,
  \* the module-level tests of test-depth-ae-toggle.py (baseline streaming and
  \* manual exposure to auto exposure): the position in the test, its locals,
  \* and the outcomes of its test.check calls, in order
  t_pc, num_iterations, iteration, frames_before_switch, total_spike_count,
  total_gaps, ae_frame_time_sum, ae_frame_time_count, gap_i, gap_end,
  unexpected_spikes, adjusted_gaps, checks,
  \* the number of frames the device had delivered when it was last switched
  \* back to auto exposure
  switched_at,
  \* one call of count_gap_spikes: its arguments and its result
  frame_time_ms, spike_threshold_percent, start_idx, spike_count,
  \* one call of calculate_average_frame_time on the same arguments: whether
  \* frame_time_ms is supplied (not None), and its result
  frame_time_supplied, average,
  \* the script of test-depth-ae-metadata.py: its position, whether the device
  \* supports auto_exposure_mode, the option's value, and the value it had
  \* when each rapid-toggle run was called ("none" before the call)
  script_pc, ae_mode_supported, auto_exposure_mode, first_run_mode,
  repeat_run_mode,
  \* whether the device of this run can reject a state-change request:
  \* set_option then raises
  set_option_fails

ctx_vars == <<frame_count, frame_timestamps, frame_ae_metadata>>
cb_vars == <<cb_pc, cb_frame, delivered>>
dev_vars == <<sensor, device_ae, exception, stabilized>>
scn_vars == <<pc, current_ae_state, metadata_errors, toggle_count, toggle_idx,
              frames_before_stabilize, frames_before, result>>
ver_vars == <<v_pc, v_i, v_end, v_expected, v_errors>>
wait_vars == <<w_pc, w_target, w_timeout, w_frames_before, w_start_time,
               w_result, w_deadline_count>>
steady_vars == <<s_pc, expected_ae_enabled, num_frames, depth_profile,
                 received_frames,
                 s_start_time, metadata_matches, frames_checked, check_passed>>
test_vars == <<t_pc, num_iterations, iteration, frames_before_switch,
               total_spike_count, total_gaps, ae_frame_time_sum,
               ae_frame_time_count, gap_i, gap_end, unexpected_spikes,
               adjusted_gaps, checks, switched_at,
               frame_time_ms, spike_threshold_percent, start_idx, spike_count,
               frame_time_supplied, average>>
script_vars == <<script_pc, ae_mode_supported, auto_exposure_mode,
                 first_run_mode, repeat_run_mode>>
fault_vars == <<set_option_fails>>
vars == <<ctx_vars, cb_vars, now, dev_vars, scn_vars, ver_vars, wait_vars,
          steady_vars, test_vars, script_vars, fault_vars>>

\* The device accepts every state-change request.
NoFaults == set_option_fails = FALSE

\* The script of test-depth-ae-metadata.py is not running.
ScriptIdle ==
  /\ script_pc = "idle" /\ ae_mode_supported = FALSE
  /\ auto_exposure_mode = "REGULAR"
  /\ first_run_mode = "none" /\ repeat_run_mode = "none"

\* No call of calculate_average_frame_time has returned: no sum, no count.
NoAverage == [total_time |-> 0, count |-> 0, value |-> <<0, 1>>]

\* No module-level test of test-depth-ae-toggle.py is running.
TestIdle ==
  /\ t_pc = "idle" /\ num_iterations = 0 /\ iteration = 0
  /\ frames_before_switch = 0 /\ unexpected_spikes = 0 /\ adjusted_gaps = 0
  /\ total_spike_count = 0 /\ total_gaps = 0
  /\ ae_frame_time_sum = 0 /\ ae_frame_time_count = 0
  /\ gap_i = 0 /\ gap_end = 0 /\ checks = <<>> /\ switched_at = 0
  /\ frame_time_ms = 1 /\ spike_threshold_percent = 10 /\ start_idx = 0
  /\ spike_count = 0
  /\ frame_time_supplied = TRUE /\ average = NoAverage

\* The steady-state helper is not running.
SteadyIdle ==
  /\ s_pc = "idle" /\ expected_ae_enabled = TRUE /\ num_frames = 0
  /\ depth_profile = "unset"
  /\ received_frames = <<>> /\ s_start_time = 0
  /\ metadata_matches = 0 /\ frames_checked = 0 /\ check_passed = "none"

\* ------------------------------------------------- StreamingContext
\* StreamingContext.__init__
ContextInit ==
  /\ frame_count = 0
  /\ frame_timestamps = <<>>
  /\ frame_ae_metadata = <<>>

\* frame_callback, first statement: self.frame_count += 1
CallbackCount(frame) ==
  /\ cb_pc = "idle"
  /\ sensor = "Started"
  /\ frame_count' = frame_count + 1
  /\ cb_frame' = frame
  /\ delivered' = Append(delivered, frame)
  /\ cb_pc' = "timestamp"
  /\ UNCHANGED <<frame_timestamps, frame_ae_metadata>>

\* frame_callback, second statement: self.frame_timestamps.append(time.time() * 1000.0)
\* `stamp` is the clock value the specification logs.
CallbackTimestamp(stamp) ==
  /\ cb_pc = "timestamp"
  /\ frame_timestamps' = Append(frame_timestamps, stamp)
  /\ cb_pc' = "metadata"
  /\ UNCHANGED <<frame_count, frame_ae_metadata, cb_frame, delivered>>

\* The entry frame_callback logs for a frame: its metadata value, or None.
LoggedMetadata(frame) ==
  IF supports_frame_metadata(frame) THEN <<get_frame_metadata(frame)>> ELSE NoMeta

\* frame_callback with the else branch lost: a frame without the field logs nothing.
CallbackMetadataSkipsNone ==
  /\ cb_pc = "metadata"
  /\ frame_ae_metadata' =
       IF supports_frame_metadata(cb_frame)
         THEN Append(frame_ae_metadata, <<get_frame_metadata(cb_frame)>>)
         ELSE frame_ae_metadata
  /\ cb_pc' = "idle"
  /\ cb_frame' = NoMeta
  /\ UNCHANGED <<frame_count, frame_timestamps, delivered>>

\* frame_callback, last statement: self.frame_ae_metadata.append(...)
CallbackMetadata ==
  /\ cb_pc = "metadata"
  /\ frame_ae_metadata' = Append(frame_ae_metadata, LoggedMetadata(cb_frame))
  /\ cb_pc' = "idle"
  /\ cb_frame' = NoMeta
  /\ UNCHANGED <<frame_count, frame_timestamps, delivered>>

\* The delivery thread, for a device that attaches one of `frames` and stops
\* after `limit` frames.  With `clocked` the timestamp log holds the clock's
\* value at arrival; without it the specification does not look at timestamp
\* values and every entry is logged as tick 0 (only the log's length is kept).
Producer(frames, limit, clocked) ==
  /\ \/ \E frame \in frames : frame_count < limit /\ CallbackCount(frame)
     \/ CallbackTimestamp(IF clocked THEN now ELSE 0)
     \/ CallbackMetadata
  /\ UNCHANGED <<now, dev_vars, scn_vars, ver_vars, wait_vars, steady_vars, test_vars, script_vars, fault_vars>>

\* ------------------------------------------------------ wait_for_frames
\* No call of wait_for_frames is active: its locals do not exist.
WaitIdle ==
  /\ w_pc = "idle" /\ w_target = 0 /\ w_timeout = 0 /\ w_frames_before = 0
  /\ w_start_time = 0 /\ w_result = FALSE /\ w_deadline_count = -1

\* Call of wait_for_frames(context, target_frames, timeout) by the control thread.
CallWait(target_frames, timeout) ==
  /\ w_pc' = "enter"
  /\ w_target' = target_frames
  /\ w_timeout' = timeout
  /\ UNCHANGED <<w_frames_before, w_start_time, w_result, w_deadline_count>>

\* WaitEnter that counts from the start of the session, not from the call.
WaitEnterFromSessionStart ==
  /\ w_pc = "enter"
  /\ w_frames_before' = 0
  /\ w_start_time' = now
  /\ w_deadline_count' = -1
  /\ w_pc' = "test"
  /\ UNCHANGED <<w_target, w_timeout, w_result>>

\* frames_before = context.frame_count; start_time = time.time()
WaitEnter ==
  /\ w_pc = "enter"
  /\ w_frames_before' = frame_count
  /\ w_start_time' = now
  /\ w_deadline_count' = -1
  /\ w_pc' = "test"
  /\ UNCHANGED <<w_target, w_timeout, w_result>>

\* The loop test of wait_for_frames: (context.frame_count - frames_before) < target_frames
\* wait_for_frames has returned to its caller: its locals are gone.
WaitReturn ==
  /\ w_pc' = "idle" /\ w_target' = 0 /\ w_timeout' = 0 /\ w_frames_before' = 0
  /\ w_start_time' = 0 /\ w_result' = FALSE /\ w_deadline_count' = -1

\* The loop test one frame short.
WaitMoreOffByOne == (frame_count - w_frames_before) < w_target - 1

WaitMore == (frame_count - w_frames_before) < w_target

\* The timeout test one tick late.
WaitTimedOutLate == (now - w_start_time) > w_timeout + 1

\* The timeout test of wait_for_frames: elapsed > timeout
WaitTimedOut == (now - w_start_time) > w_timeout

\* One poll: the loop test, then the timeout test, then return or go to sleep.
WaitTest ==
  /\ w_pc = "test"
  /\ IF WaitMore
       THEN IF WaitTimedOut
              THEN w_pc' = "done" /\ w_result' = FALSE
              ELSE w_pc' = "sleep" /\ UNCHANGED w_result
       ELSE w_pc' = "done" /\ w_result' = TRUE
  /\ UNCHANGED <<w_target, w_timeout, w_frames_before, w_start_time,
                 w_deadline_count, now>>

\* time.sleep(0.01): one tick passes.  The count at the moment the timeout
\* elapses is remembered.
WaitSleep ==
  /\ w_pc = "sleep"
  /\ now' = now + 1
  /\ w_deadline_count' =
       IF now - w_start_time = w_timeout THEN frame_count ELSE w_deadline_count
  /\ w_pc' = "test"
  /\ UNCHANGED <<w_target, w_timeout, w_frames_before, w_start_time, w_result>>

\* The steps the control thread takes inside wait_for_frames.
WaitStep ==
  /\ \/ WaitEnter /\ UNCHANGED now
     \/ WaitTest
     \/ WaitSleep
  /\ UNCHANGED <<ctx_vars, cb_vars, steady_vars, test_vars, script_vars, fault_vars, dev_vars, scn_vars, ver_vars>>

\* --------------------------------------------------- verify_ae_metadata
\* No call of verify_ae_metadata is active: its locals do not exist.
VerifyIdle ==
  v_pc = "idle" /\ v_i = 0 /\ v_end = 0 /\ v_expected = TRUE /\ v_errors = 0

\* Call of verify_ae_metadata(context, start_frame, end_frame, expected_ae_state)
\* (verify_ae_metadata_from_context in test-depth-ae-metadata.py).
CallVerify(start_frame, end_frame, expected_ae_state) ==
  /\ v_pc' = "loop"
  /\ v_i' = start_frame
  /\ v_end' = end_frame
  /\ v_expected' = expected_ae_state
  /\ v_errors' = 0

\* verify_ae_metadata has returned to its caller: its locals are gone.
VerifyReturn ==
  v_pc' = "idle" /\ v_i' = 0 /\ v_end' = 0 /\ v_expected' = TRUE /\ v_errors' = 0

\* i < len(context.frame_ae_metadata) and context.frame_ae_metadata[i] is not None
\* (the log is 0-based in the code, 1-based here)
HasMetadata(log, i) == i < Len(log) /\ log[i + 1] # NoMeta

\* The metadata convention read as "1 means enabled".
ae_enabled_is_one(ae_metadata) == ae_metadata = 1

\* ae_enabled_in_metadata = (ae_metadata != 0)
ae_enabled_in_metadata(ae_metadata) == ae_metadata # 0

\* One frame of the verifier's loop: 1 when frame i is present in the log,
\* carries metadata and that metadata disagrees with the expected state.
FrameError(log, i, expected_ae_state) ==
  IF HasMetadata(log, i)
     /\ ae_enabled_in_metadata(log[i + 1][1]) # expected_ae_state
    THEN 1 ELSE 0

\* for i in range(start_frame, end_frame): ... ; return metadata_errors
VerifyStep ==
  /\ v_pc = "loop"
  /\ IF v_i < v_end
       THEN /\ v_errors' = v_errors + FrameError(frame_ae_metadata, v_i, v_expected)
            /\ v_i' = v_i + 1
            /\ UNCHANGED v_pc
       ELSE /\ v_pc' = "done"
            /\ UNCHANGED <<v_i, v_errors>>
  /\ UNCHANGED <<v_end, v_expected>>
  /\ UNCHANGED <<ctx_vars, cb_vars, steady_vars, test_vars, script_vars, fault_vars, now, dev_vars, scn_vars, wait_vars>>

\* ------------------------------------------------------ the depth sensor
\* The streaming session Closed -> Open -> Started -> Stopped -> Closed: the
\* state a call leaves the session in, or "RuntimeError" when the call is not
\* allowed in state `session`.
SessionCall(session, call) ==
  CASE call = "open" /\ session = "Closed" -> "Open"
    [] call = "start" /\ session = "Open" -> "Started"
    [] call = "stop" /\ session = "Started" -> "Stopped"
    [] call = "close" /\ session \in {"Open", "Stopped"} -> "Closed"
    [] OTHER -> "RuntimeError"

\* depth_sensor.set_option(rs.option.enable_auto_exposure, value)
SetAutoExposure(value) ==
  /\ device_ae' = value
  /\ stabilized' = FALSE
  /\ UNCHANGED <<sensor, exception>>

\* Whether one set_option call raises: only a device that can reject
\* state-change requests raises, and it may do so at any call.
MayRaise == IF set_option_fails THEN BOOLEAN ELSE {FALSE}

\* depth_sensor.set_option(rs.option.enable_auto_exposure, value), which
\* either takes effect or raises and changes nothing on the device.
SetOption(value, raised) ==
  IF raised
    THEN /\ exception' = "propagated"
         /\ UNCHANGED <<sensor, device_ae, stabilized>>
    ELSE SetAutoExposure(value)

\* depth_sensor.open(profile); depth_sensor.start(callback)
OpenAndStart ==
  LET opened == SessionCall(sensor, "open")
      started == SessionCall(opened, "start")
  IN /\ IF opened = "RuntimeError" \/ started = "RuntimeError"
          THEN /\ exception' = "propagated"
               /\ sensor' = IF opened = "RuntimeError" THEN sensor ELSE opened
          ELSE /\ sensor' = started
               /\ UNCHANGED exception
     /\ UNCHANGED <<device_ae, stabilized>>

\* depth_sensor.stop(); depth_sensor.close(): the session state they leave,
\* and whether one of them raised RuntimeError (close is skipped when stop raises)
StopThenClose(session) ==
  LET stopped == SessionCall(session, "stop")
      closed == SessionCall(stopped, "close")
  IN IF stopped = "RuntimeError" THEN [session |-> session, raised |-> TRUE]
     ELSE IF closed = "RuntimeError" THEN [session |-> stopped, raised |-> TRUE]
     ELSE [session |-> closed, raised |-> FALSE]

\* StopAndClose without its except clause: a RuntimeError leaves the scenario.
StopAndClosePropagates ==
  /\ sensor' = StopThenClose(sensor).session
  /\ exception' = IF StopThenClose(sensor).raised THEN "propagated" ELSE exception
  /\ UNCHANGED <<device_ae, stabilized>>

\* try: depth_sensor.stop(); depth_sensor.close()  except RuntimeError: pass
StopAndClose ==
  /\ sensor' = StopThenClose(sensor).session
  /\ exception' = IF StopThenClose(sensor).raised /\ exception = "none"
                    THEN "swallowed" ELSE exception
  /\ UNCHANGED <<device_ae, stabilized>>

\* ------------------------------------------- toggle_ae_while_streaming
\* context = StreamingContext(); depth_sensor.open(...); depth_sensor.start(...)
ToggleOpen ==
  /\ pc = "open"
  /\ OpenAndStart
  /\ pc' = "set_initial"
  /\ UNCHANGED <<current_ae_state, metadata_errors, toggle_count, toggle_idx,
                 frames_before_stabilize, frames_before, result>>
  /\ UNCHANGED <<ctx_vars, cb_vars, steady_vars, test_vars, script_vars, fault_vars, now, ver_vars, wait_vars>>

\* current_ae_state = True; depth_sensor.set_option(enable_auto_exposure, current_ae_state)
\* The call stands before the try block: when it raises, the exception leaves
\* the function at once.
ToggleSetInitial ==
  /\ pc = "set_initial"
  /\ current_ae_state' = TRUE
  /\ \E raised \in MayRaise :
       /\ SetOption(TRUE, raised)
       /\ pc' = IF raised THEN "done" ELSE "initial_sleep"
  /\ UNCHANGED <<metadata_errors, toggle_count, toggle_idx,
                 frames_before_stabilize, frames_before, result>>
  /\ UNCHANGED <<ctx_vars, cb_vars, steady_vars, test_vars, script_vars, fault_vars, now, ver_vars, wait_vars>>

\* time.sleep(1.0); metadata_errors = 0; toggle_count = 0
ToggleInitialSleep ==
  /\ pc = "initial_sleep"
  /\ now' = now + 1
  /\ metadata_errors' = 0
  /\ toggle_count' = 0
  /\ toggle_idx' = 0
  /\ pc' = "loop"
  /\ UNCHANGED <<current_ae_state, frames_before_stabilize, frames_before, result>>
  /\ UNCHANGED <<ctx_vars, cb_vars, steady_vars, test_vars, script_vars, fault_vars, dev_vars, ver_vars, wait_vars>>

\* ToggleLoop that toggles in the first iteration as well.
ToggleLoopTogglesFirst ==
  /\ pc = "loop"
  /\ pc' = IF toggle_idx >= NumToggles THEN "finally" ELSE "toggle"
  /\ UNCHANGED <<current_ae_state, metadata_errors, toggle_count, toggle_idx,
                 frames_before_stabilize, frames_before, result>>
  /\ UNCHANGED <<ctx_vars, cb_vars, steady_vars, test_vars, script_vars, fault_vars, now, dev_vars, ver_vars, wait_vars>>

\* for toggle_idx in range(num_toggles): if toggle_idx > 0: ...
ToggleLoop ==
  /\ pc = "loop"
  /\ pc' = IF toggle_idx >= NumToggles THEN "finally"
           ELSE IF toggle_idx > 0 THEN "toggle" ELSE "collect"
  /\ UNCHANGED <<current_ae_state, metadata_errors, toggle_count, toggle_idx,
                 frames_before_stabilize, frames_before, result>>
  /\ UNCHANGED <<ctx_vars, cb_vars, steady_vars, test_vars, script_vars, fault_vars, now, dev_vars, ver_vars, wait_vars>>

\* current_ae_state = not current_ae_state; set_option(...); toggle_count += 1
\* The call stands inside the try block: when it raises, the finally block runs.
ToggleSwitch ==
  /\ pc = "toggle"
  /\ current_ae_state' = ~current_ae_state
  /\ \E raised \in MayRaise :
       /\ SetOption(~current_ae_state, raised)
       /\ toggle_count' = IF raised THEN toggle_count ELSE toggle_count + 1
       /\ pc' = IF raised THEN "finally" ELSE "stabilize"
  /\ UNCHANGED <<metadata_errors, toggle_idx, frames_before_stabilize,
                 frames_before, result>>
  /\ UNCHANGED <<ctx_vars, cb_vars, steady_vars, test_vars, script_vars, fault_vars, now, ver_vars, wait_vars>>

\* frames_before_stabilize = context.frame_count;
\* wait_for_frames(context, frames_between_toggles)
ToggleStabilize ==
  /\ pc = "stabilize"
  /\ frames_before_stabilize' = frame_count
  /\ CallWait(FramesBetweenToggles, TimeoutTicks)
  /\ pc' = "stabilize_wait"
  /\ UNCHANGED <<current_ae_state, metadata_errors, toggle_count, toggle_idx,
                 frames_before, result>>
  /\ UNCHANGED <<ctx_vars, cb_vars, steady_vars, test_vars, script_vars, fault_vars, now, dev_vars, ver_vars>>

\* ToggleStabilized without the failure path: a timed-out barrier is ignored.
ToggleStabilizedIgnoresTimeout ==
  /\ pc = "stabilize_wait"
  /\ w_pc = "done"
  /\ WaitReturn
  /\ stabilized' = w_result
  /\ pc' = "collect"
  /\ UNCHANGED <<current_ae_state, metadata_errors, toggle_count, toggle_idx,
                 frames_before_stabilize, frames_before, result>>
  /\ UNCHANGED <<ctx_vars, cb_vars, steady_vars, test_vars, script_vars, fault_vars, now, sensor, device_ae, exception, ver_vars>>

\* if not wait_for_frames(...): the failure path, else on to the collection
ToggleStabilized ==
  /\ pc = "stabilize_wait"
  /\ w_pc = "done"
  /\ WaitReturn
  /\ stabilized' = w_result
  /\ pc' = IF w_result THEN "collect" ELSE "fail_stop"
  /\ UNCHANGED <<current_ae_state, metadata_errors, toggle_count, toggle_idx,
                 frames_before_stabilize, frames_before, result>>
  /\ UNCHANGED <<ctx_vars, cb_vars, steady_vars, test_vars, script_vars, fault_vars, now, sensor, device_ae, exception, ver_vars>>

\* ToggleCollect that starts each collection window on an emptied metadata log.
ToggleCollectClearsLog ==
  /\ pc = "collect"
  /\ frames_before' = frame_count
  /\ frame_ae_metadata' = <<>>
  /\ CallWait(FramesPerState, TimeoutTicks)
  /\ pc' = "collect_wait"
  /\ UNCHANGED <<current_ae_state, metadata_errors, toggle_count, toggle_idx,
                 frames_before_stabilize, result>>
  /\ UNCHANGED <<frame_count, frame_timestamps, cb_vars, steady_vars, test_vars, script_vars, fault_vars, now, dev_vars, ver_vars>>

\* frames_before = context.frame_count; wait_for_frames(context, frames_per_state)
ToggleCollect ==
  /\ pc = "collect"
  /\ frames_before' = frame_count
  /\ CallWait(FramesPerState, TimeoutTicks)
  /\ pc' = "collect_wait"
  /\ UNCHANGED <<current_ae_state, metadata_errors, toggle_count, toggle_idx,
                 frames_before_stabilize, result>>
  /\ UNCHANGED <<ctx_vars, cb_vars, steady_vars, test_vars, script_vars, fault_vars, now, dev_vars, ver_vars>>

\* ToggleCollected without the failure path: a timed-out collection is verified.
ToggleCollectedIgnoresTimeout ==
  /\ pc = "collect_wait"
  /\ w_pc = "done"
  /\ WaitReturn
  /\ pc' = "verify"
  /\ UNCHANGED <<current_ae_state, metadata_errors, toggle_count, toggle_idx,
                 frames_before_stabilize, frames_before, result>>
  /\ UNCHANGED <<ctx_vars, cb_vars, steady_vars, test_vars, script_vars, fault_vars, now, dev_vars, ver_vars>>

\* ToggleCollected that retries the collection barrier after a timeout.
ToggleCollectedRetries ==
  /\ pc = "collect_wait"
  /\ w_pc = "done"
  /\ WaitReturn
  /\ pc' = IF w_result THEN "verify" ELSE "collect"
  /\ UNCHANGED <<current_ae_state, metadata_errors, toggle_count, toggle_idx,
                 frames_before_stabilize, frames_before, result>>
  /\ UNCHANGED <<ctx_vars, cb_vars, steady_vars, test_vars, script_vars, fault_vars, now, dev_vars, ver_vars>>

\* if not wait_for_frames(...): the failure path, else on to the verification
ToggleCollected ==
  /\ pc = "collect_wait"
  /\ w_pc = "done"
  /\ WaitReturn
  /\ pc' = IF w_result THEN "verify" ELSE "fail_stop"
  /\ UNCHANGED <<current_ae_state, metadata_errors, toggle_count, toggle_idx,
                 frames_before_stabilize, frames_before, result>>
  /\ UNCHANGED <<ctx_vars, cb_vars, steady_vars, test_vars, script_vars, fault_vars, now, dev_vars, ver_vars>>

\* ToggleVerify that starts the window at the toggle, not after the barrier.
ToggleVerifyFromToggle ==
  /\ pc = "verify"
  /\ CallVerify(frames_before_stabilize, frame_count, current_ae_state)
  /\ pc' = "verify_wait"
  /\ UNCHANGED <<current_ae_state, metadata_errors, toggle_count, toggle_idx,
                 frames_before_stabilize, frames_before, result>>
  /\ UNCHANGED <<ctx_vars, cb_vars, steady_vars, test_vars, script_vars, fault_vars, now, dev_vars, wait_vars>>

\* verify_ae_metadata(context, frames_before, context.frame_count, current_ae_state)
ToggleVerify ==
  /\ pc = "verify"
  /\ CallVerify(frames_before, frame_count, current_ae_state)
  /\ pc' = "verify_wait"
  /\ UNCHANGED <<current_ae_state, metadata_errors, toggle_count, toggle_idx,
                 frames_before_stabilize, frames_before, result>>
  /\ UNCHANGED <<ctx_vars, cb_vars, steady_vars, test_vars, script_vars, fault_vars, now, dev_vars, wait_vars>>

\* metadata_errors += <the verifier's result>; next iteration
ToggleVerified ==
  /\ pc = "verify_wait"
  /\ v_pc = "done"
  /\ VerifyReturn
  /\ metadata_errors' = metadata_errors + v_errors
  /\ toggle_idx' = toggle_idx + 1
  /\ pc' = "loop"
  /\ UNCHANGED <<current_ae_state, toggle_count, frames_before_stabilize,
                 frames_before, result>>
  /\ UNCHANGED <<ctx_vars, cb_vars, steady_vars, test_vars, script_vars, fault_vars, now, dev_vars, wait_vars>>

\* The failure path of a barrier: try: stop(); close()  except RuntimeError: pass
ToggleFailStop ==
  /\ pc = "fail_stop"
  /\ StopAndClose
  /\ pc' = "fail_return"
  /\ UNCHANGED <<current_ae_state, metadata_errors, toggle_count, toggle_idx,
                 frames_before_stabilize, frames_before, result>>
  /\ UNCHANGED <<ctx_vars, cb_vars, steady_vars, test_vars, script_vars, fault_vars, now, ver_vars, wait_vars>>

\* ToggleFailReturn that judges a timed-out run by its frame count.
ToggleFailReturnChecksFrames ==
  /\ pc = "fail_return"
  /\ result' = [success |-> frame_count >= NumToggles * FramesPerState,
                total_frames |-> frame_count,
                metadata_errors |-> metadata_errors]
  /\ StopAndClose
  /\ pc' = "done"
  /\ UNCHANGED <<current_ae_state, metadata_errors, toggle_count, toggle_idx,
                 frames_before_stabilize, frames_before>>
  /\ UNCHANGED <<ctx_vars, cb_vars, steady_vars, test_vars, script_vars, fault_vars, now, ver_vars, wait_vars>>

\* return False, context.frame_count, metadata_errors (through the finally block,
\* whose second stop()/close() is swallowed)
ToggleFailReturn ==
  /\ pc = "fail_return"
  /\ result' = [success |-> FALSE, total_frames |-> frame_count,
                metadata_errors |-> metadata_errors]
  /\ StopAndClose
  /\ pc' = "done"
  /\ UNCHANGED <<current_ae_state, metadata_errors, toggle_count, toggle_idx,
                 frames_before_stabilize, frames_before>>
  /\ UNCHANGED <<ctx_vars, cb_vars, steady_vars, test_vars, script_vars, fault_vars, now, ver_vars, wait_vars>>

\* finally: try: stop(); close()  except RuntimeError: pass
ToggleFinally ==
  /\ pc = "finally"
  /\ StopAndClose
  /\ pc' = IF exception = "propagated" THEN "done" ELSE "return"
  /\ UNCHANGED <<current_ae_state, metadata_errors, toggle_count, toggle_idx,
                 frames_before_stabilize, frames_before, result>>
  /\ UNCHANGED <<ctx_vars, cb_vars, steady_vars, test_vars, script_vars, fault_vars, now, ver_vars, wait_vars>>

\* success = context.frame_count >= (num_toggles * frames_per_state)
EnoughFrames == frame_count >= NumToggles * FramesPerState

\* return success, context.frame_count, metadata_errors
ToggleReturn ==
  /\ pc = "return"
  /\ result' = [success |-> EnoughFrames, total_frames |-> frame_count,
                metadata_errors |-> metadata_errors]
  /\ pc' = "done"
  /\ UNCHANGED <<current_ae_state, metadata_errors, toggle_count, toggle_idx,
                 frames_before_stabilize, frames_before>>
  /\ UNCHANGED <<ctx_vars, cb_vars, steady_vars, test_vars, script_vars, fault_vars, now, dev_vars, ver_vars, wait_vars>>

\* The control thread's own steps in toggle_ae_while_streaming.
ToggleStep ==
  \/ ToggleOpen \/ ToggleSetInitial \/ ToggleInitialSleep \/ ToggleLoop
  \/ ToggleSwitch \/ ToggleStabilize \/ ToggleStabilized
  \/ ToggleCollect \/ ToggleCollected \/ ToggleVerify \/ ToggleVerified
  \/ ToggleFailStop \/ ToggleFailReturn \/ ToggleFinally \/ ToggleReturn

\* The control thread: the scenario and the helpers it calls.
Control == ToggleStep \/ WaitStep \/ VerifyStep

\* The locals of toggle_ae_while_streaming when it is not running.
ToggleIdle(at) ==
  /\ pc = at
  /\ current_ae_state = TRUE
  /\ metadata_errors = 0 /\ toggle_count = 0 /\ toggle_idx = 0
  /\ frames_before_stabilize = 0 /\ frames_before = 0
  /\ result = [success |-> FALSE, total_frames |-> 0, metadata_errors |-> 0]

\* The state before toggle_ae_while_streaming is called; the device's option
\* may be on or off from an earlier test.
Init ==
  /\ ContextInit
  /\ cb_pc = "idle" /\ cb_frame = NoMeta /\ delivered = <<>>
  /\ now = 0
  /\ sensor = "Closed" /\ device_ae \in BOOLEAN /\ stabilized = FALSE
  /\ exception = "none"
  /\ ScriptIdle
  /\ NoFaults
  /\ ToggleIdle("open")
  /\ VerifyIdle
  /\ WaitIdle
  /\ SteadyIdle
  /\ TestIdle

Next == Control \/ Producer(DeviceFrames, MaxFrames, FALSE)

\* The rapid-toggle scenario running against a streaming device.
Spec == Init /\ [][Next]_vars

\* The rapid-toggle scenario under the scheduling the code relies on: the
\* control thread is a running thread and keeps taking steps.  Nothing is
\* assumed of the delivery thread, which may stop delivering at any time.
\* Which value a frame carries never steers the control flow, so the device
\* of this specification attaches either nothing or the value 1.
FairNext == Control \/ Producer({NoMeta, <<1>>}, MaxFrames, FALSE)

FairSpec == Init /\ [][FairNext]_vars /\ WF_vars(Control)

\* ------------------------------------------- wait_for_frames on its own
\* A context that already holds up to MaxSeed frames, and one call of
\* wait_for_frames for up to MaxTarget new frames while the device delivers
\* up to MaxBarrierFrames frames in all.
MaxSeed == 5
MaxTarget == 3
MaxBarrierFrames == 9

\* A sequence of n copies of x.
Repeat(x, n) == [i \in 1..n |-> x]

BarrierInit ==
  /\ \E seed \in 0..MaxSeed :
       /\ frame_count = seed
       /\ frame_timestamps = Repeat(0, seed)
       /\ frame_ae_metadata = Repeat(NoMeta, seed)
       /\ delivered = Repeat(NoMeta, seed)
  /\ cb_pc = "idle" /\ cb_frame = NoMeta
  /\ now = 0
  /\ sensor = "Started" /\ device_ae = TRUE /\ stabilized = FALSE
  /\ exception = "none"
  /\ ScriptIdle
  /\ NoFaults
  /\ ToggleIdle("barrier")
  /\ VerifyIdle
  /\ w_pc = "enter" /\ w_target \in 0..MaxTarget /\ w_timeout = TimeoutTicks
  /\ w_frames_before = 0 /\ w_start_time = 0 /\ w_result = FALSE
  /\ w_deadline_count = -1
  /\ SteadyIdle
  /\ TestIdle

BarrierNext == WaitStep \/ Producer({NoMeta}, MaxBarrierFrames, FALSE)

SpecBarrier == BarrierInit /\ [][BarrierNext]_vars

\* ---------------------------------------- verify_ae_metadata on its own
\* Every metadata log of up to MaxLogLen entries, and one call of the
\* verifier for every window [start, end) with 0 <= start, end <= MaxLogLen + 1.
MaxLogLen == 5

\* The entries a log may hold: None, zero, and a nonzero value.
LogEntries == {NoMeta, <<0>>, <<2>>}

\* All sequences over `entries` of length at most n.
SeqsUpTo(entries, n) == UNION {[1..k -> entries] : k \in 0..n}

VerifyInit ==
  /\ frame_ae_metadata \in SeqsUpTo(LogEntries, MaxLogLen)
  /\ delivered = frame_ae_metadata
  /\ frame_count = Len(frame_ae_metadata)
  /\ frame_timestamps = Repeat(0, Len(frame_ae_metadata))
  /\ cb_pc = "idle" /\ cb_frame = NoMeta
  /\ now = 0
  /\ sensor = "Started" /\ device_ae = TRUE /\ stabilized = FALSE
  /\ exception = "none"
  /\ ScriptIdle
  /\ NoFaults
  /\ pc = "verifier"
  /\ current_ae_state = TRUE
  /\ metadata_errors = 0 /\ toggle_count = 0 /\ toggle_idx = 0
  /\ frames_before_stabilize = 0
  /\ frames_before \in 0..(MaxLogLen + 1)
  /\ result = [success |-> FALSE, total_frames |-> 0, metadata_errors |-> 0]
  /\ v_pc = "loop" /\ v_i = frames_before /\ v_end \in 0..(MaxLogLen + 1)
  /\ v_expected \in BOOLEAN /\ v_errors = 0
  /\ WaitIdle
  /\ SteadyIdle
  /\ TestIdle

VerifyNext == VerifyStep

SpecVerify == VerifyInit /\ [][VerifyNext]_vars

\* ------------------ verify_ae_metadata(depth_sensor, ...), steady state
\* The steady-state helper of test-depth-ae-metadata.py: it streams into a
\* local list, stops, and then scores the frames it received.
\* Its timeout (2.0 s in the code) in polling ticks, the largest num_frames
\* tried, and the most frames the device delivers while it streams.
SteadyTimeoutTicks == 2
MaxNumFrames == 2
MaxSteadyFrames == 3

\* depth_profile = next((p for p in depth_sensor.profiles if ...), None);
\* if depth_profile is None: return 0, 0
SteadyProfile ==
  /\ s_pc = "profile"
  /\ \E found \in BOOLEAN :
       /\ depth_profile' = IF found THEN "z16_30fps" ELSE "None"
       /\ s_pc' = IF found THEN "open" ELSE "returned"
  /\ metadata_matches' = 0
  /\ frames_checked' = 0
  /\ UNCHANGED <<expected_ae_enabled, num_frames, received_frames, s_start_time,
                 check_passed>>
  /\ UNCHANGED <<ctx_vars, cb_vars, now, dev_vars, scn_vars, test_vars, script_vars, fault_vars, ver_vars, wait_vars>>

\* depth_sensor.open(depth_profile); received_frames = []; depth_sensor.start(frame_callback)
SteadyOpen ==
  /\ s_pc = "open"
  /\ OpenAndStart
  /\ received_frames' = <<>>
  /\ s_pc' = "timer"
  /\ UNCHANGED <<depth_profile, expected_ae_enabled, num_frames, s_start_time,
                 metadata_matches,
                 frames_checked, check_passed>>
  /\ UNCHANGED <<ctx_vars, cb_vars, now, scn_vars, test_vars, script_vars, fault_vars, ver_vars, wait_vars>>

\* the local frame_callback: received_frames.append(frame)
SteadyCallback(frame) ==
  /\ sensor = "Started"
  /\ s_pc \in {"timer", "wait", "sleep", "stop"}
  /\ Len(received_frames) < MaxSteadyFrames
  /\ received_frames' = Append(received_frames, frame)
  /\ UNCHANGED <<s_pc, depth_profile, expected_ae_enabled, num_frames, s_start_time,
                 metadata_matches, frames_checked, check_passed>>
  /\ UNCHANGED <<ctx_vars, cb_vars, now, dev_vars, scn_vars, test_vars, script_vars, fault_vars, ver_vars, wait_vars>>

\* timeout = 2.0; start_time = time.time()
SteadyTimer ==
  /\ s_pc = "timer"
  /\ s_start_time' = now
  /\ s_pc' = "wait"
  /\ UNCHANGED <<depth_profile, expected_ae_enabled, num_frames, received_frames,
                 metadata_matches, frames_checked, check_passed>>
  /\ UNCHANGED <<ctx_vars, cb_vars, now, dev_vars, scn_vars, test_vars, script_vars, fault_vars, ver_vars, wait_vars>>

\* while len(received_frames) < num_frames and (time.time() - start_time) < timeout:
SteadyWaitTest ==
  /\ s_pc = "wait"
  /\ s_pc' = IF /\ Len(received_frames) < num_frames
                /\ (now - s_start_time) < SteadyTimeoutTicks
               THEN "sleep" ELSE "stop"
  /\ UNCHANGED <<depth_profile, expected_ae_enabled, num_frames, received_frames,
                 s_start_time,
                 metadata_matches, frames_checked, check_passed>>
  /\ UNCHANGED <<ctx_vars, cb_vars, now, dev_vars, scn_vars, test_vars, script_vars, fault_vars, ver_vars, wait_vars>>

\* time.sleep(0.01)
SteadySleep ==
  /\ s_pc = "sleep"
  /\ now' = now + 1
  /\ s_pc' = "wait"
  /\ UNCHANGED <<depth_profile, expected_ae_enabled, num_frames, received_frames,
                 s_start_time,
                 metadata_matches, frames_checked, check_passed>>
  /\ UNCHANGED <<ctx_vars, cb_vars, dev_vars, scn_vars, test_vars, script_vars, fault_vars, ver_vars, wait_vars>>

\* depth_sensor.stop(); depth_sensor.close()
SteadyStop ==
  /\ s_pc = "stop"
  /\ StopAndClose
  /\ s_pc' = "score"
  /\ UNCHANGED <<depth_profile, expected_ae_enabled, num_frames, received_frames,
                 s_start_time,
                 metadata_matches, frames_checked, check_passed>>
  /\ UNCHANGED <<ctx_vars, cb_vars, now, scn_vars, test_vars, script_vars, fault_vars, ver_vars, wait_vars>>

\* received_frames[:num_frames]
Take(frames, n) == SubSeq(frames, 1, IF n < Len(frames) THEN n ELSE Len(frames))

\* The scoring loop of the steady-state helper from frame k on:
\*   for frame in received_frames[:num_frames]:
\*       frames_checked += 1
\*       if frame.supports_frame_metadata(...):
\*           if (ae_metadata != 0) == expected_ae_enabled: metadata_matches += 1
\* It yields <<metadata_matches, frames_checked>>.
RECURSIVE ScoreFrames(_, _, _, _, _)
ScoreFrames(frames, k, expected, matches, checked) ==
  IF k > Len(frames) THEN <<matches, checked>>
  ELSE ScoreFrames(frames, k + 1, expected,
         IF /\ supports_frame_metadata(frames[k])
            /\ ae_enabled_in_metadata(get_frame_metadata(frames[k])) = expected
           THEN matches + 1 ELSE matches,
         checked + 1)

\* the scoring loop; return metadata_matches, frames_checked
SteadyScore ==
  /\ s_pc = "score"
  /\ LET score == ScoreFrames(Take(received_frames, num_frames), 1,
                              expected_ae_enabled, metadata_matches, frames_checked)
     IN /\ metadata_matches' = score[1]
        /\ frames_checked' = score[2]
  /\ s_pc' = "returned"
  /\ UNCHANGED <<depth_profile, expected_ae_enabled, num_frames, received_frames,
                 s_start_time,
                 check_passed>>
  /\ UNCHANGED <<ctx_vars, cb_vars, now, dev_vars, scn_vars, test_vars, script_vars, fault_vars, ver_vars, wait_vars>>

\* matches, total = verify_ae_metadata(...); test.check(matches == total, ...)
SteadyCheck ==
  /\ s_pc = "returned"
  /\ check_passed' = IF metadata_matches = frames_checked THEN "pass" ELSE "fail"
  /\ s_pc' = "done"
  /\ UNCHANGED <<depth_profile, expected_ae_enabled, num_frames, received_frames,
                 s_start_time,
                 metadata_matches, frames_checked>>
  /\ UNCHANGED <<ctx_vars, cb_vars, now, dev_vars, scn_vars, test_vars, script_vars, fault_vars, ver_vars, wait_vars>>

\* The option has been set to the expected state and read back; the helper is
\* about to be called with num_frames frames to score.
SteadyInit ==
  /\ ContextInit
  /\ cb_pc = "idle" /\ cb_frame = NoMeta /\ delivered = <<>>
  /\ now = 0
  /\ sensor = "Closed" /\ device_ae \in BOOLEAN /\ stabilized = FALSE
  /\ exception = "none"
  /\ ScriptIdle
  /\ NoFaults
  /\ ToggleIdle("steady")
  /\ VerifyIdle
  /\ WaitIdle
  /\ s_pc = "profile"
  /\ expected_ae_enabled = device_ae
  /\ depth_profile = "unset"
  /\ num_frames \in 1..MaxNumFrames
  /\ received_frames = <<>> /\ s_start_time = 0
  /\ metadata_matches = 0 /\ frames_checked = 0 /\ check_passed = "none"
  /\ TestIdle

SteadyNext ==
  \/ SteadyProfile \/ SteadyOpen \/ SteadyTimer \/ SteadyWaitTest \/ SteadySleep
  \/ SteadyStop \/ SteadyScore \/ SteadyCheck
  \/ \E frame \in DeviceFrames : SteadyCallback(frame)

SpecSteady == SteadyInit /\ [][SteadyNext]_vars

\* ------------------------------- the script of test-depth-ae-metadata.py
\* verify_ae_metadata(depth_sensor, expected_ae_enabled=expected, num_frames=n)
\* is called: its locals start afresh.
SteadyCall(expected, n) ==
  /\ s_pc' = "profile"
  /\ expected_ae_enabled' = expected
  /\ num_frames' = n
  /\ depth_profile' = "unset"
  /\ received_frames' = <<>>
  /\ s_start_time' = 0
  /\ metadata_matches' = 0
  /\ frames_checked' = 0
  /\ check_passed' = "none"

\* Test 1: set_option(enable_auto_exposure, True); verify_ae_metadata(True)
ScriptTest1 ==
  /\ script_pc = "test1"
  /\ SetAutoExposure(TRUE)
  /\ SteadyCall(TRUE, MaxNumFrames)
  /\ script_pc' = "test1_default"
  /\ UNCHANGED <<ae_mode_supported, auto_exposure_mode, first_run_mode,
                 repeat_run_mode>>
  /\ UNCHANGED <<fault_vars, ctx_vars, cb_vars, now, scn_vars, test_vars, ver_vars, wait_vars>>

\* Test 1, second half: if ae_mode_supported:
\*   set_option(auto_exposure_mode, ACCELERATED); verify_ae_metadata(True)
ScriptTest1Accelerated ==
  /\ script_pc = "test1_default" /\ s_pc = "done"
  /\ IF ae_mode_supported
       THEN /\ auto_exposure_mode' = "ACCELERATED"
            /\ SteadyCall(TRUE, MaxNumFrames)
            /\ script_pc' = "test1_accelerated"
       ELSE /\ script_pc' = "test2"
            /\ UNCHANGED <<auto_exposure_mode, steady_vars>>
  /\ UNCHANGED <<ae_mode_supported, first_run_mode, repeat_run_mode>>
  /\ UNCHANGED <<fault_vars, ctx_vars, cb_vars, now, dev_vars, scn_vars, test_vars, ver_vars,
                 wait_vars>>

\* Test 2: set_option(enable_auto_exposure, False); verify_ae_metadata(False)
ScriptTest2 ==
  /\ \/ script_pc = "test2"
     \/ script_pc = "test1_accelerated" /\ s_pc = "done"
  /\ SetAutoExposure(FALSE)
  /\ SteadyCall(FALSE, MaxNumFrames)
  /\ script_pc' = "test2_run"
  /\ UNCHANGED <<ae_mode_supported, auto_exposure_mode, first_run_mode,
                 repeat_run_mode>>
  /\ UNCHANGED <<fault_vars, ctx_vars, cb_vars, now, scn_vars, test_vars, ver_vars, wait_vars>>

\* Test 3, first run ("Test with default AE mode"): toggle_ae_while_streaming
\* is called with whatever auto_exposure_mode the device has; the run itself
\* (the actions of Control) sets enable_auto_exposure only and leaves the
\* option at the value of its last toggle.
ScriptRapidToggle ==
  /\ script_pc = "test2_run" /\ s_pc = "done"
  /\ first_run_mode' = auto_exposure_mode
  /\ \E last \in BOOLEAN : SetAutoExposure(last)
  /\ script_pc' = "test3_default"
  /\ UNCHANGED <<ae_mode_supported, auto_exposure_mode, repeat_run_mode>>
  /\ UNCHANGED <<fault_vars, ctx_vars, cb_vars, now, scn_vars, steady_vars, test_vars, ver_vars,
                 wait_vars>>

\* Test 3, repeated run: if ae_mode_supported:
\*   set_option(auto_exposure_mode, ACCELERATED); toggle_ae_while_streaming(...)
ScriptRapidToggleAccelerated ==
  /\ script_pc = "test3_default"
  /\ IF ae_mode_supported
       THEN /\ auto_exposure_mode' = "ACCELERATED"
            /\ repeat_run_mode' = "ACCELERATED"
            /\ \E last \in BOOLEAN : SetAutoExposure(last)
       ELSE UNCHANGED <<auto_exposure_mode, repeat_run_mode, dev_vars>>
  /\ script_pc' = "finished"
  /\ UNCHANGED <<ae_mode_supported, first_run_mode>>
  /\ UNCHANGED <<fault_vars, ctx_vars, cb_vars, now, scn_vars, steady_vars, test_vars, ver_vars,
                 wait_vars>>

\* The script starts on a device whose auto_exposure_mode is at its default;
\* ae_mode_supported = depth_sensor.supports(rs.option.auto_exposure_mode).
ScriptInit ==
  /\ ContextInit
  /\ cb_pc = "idle" /\ cb_frame = NoMeta /\ delivered = <<>>
  /\ now = 0
  /\ sensor = "Closed" /\ device_ae \in BOOLEAN /\ stabilized = FALSE
  /\ exception = "none"
  /\ ToggleIdle("script")
  /\ VerifyIdle
  /\ WaitIdle
  /\ SteadyIdle
  /\ TestIdle
  /\ script_pc = "test1"
  /\ NoFaults
  /\ ae_mode_supported \in BOOLEAN
  /\ auto_exposure_mode = "REGULAR"
  /\ first_run_mode = "none" /\ repeat_run_mode = "none"

ScriptNext ==
  \/ ScriptTest1 \/ ScriptTest1Accelerated \/ ScriptTest2
  \/ ScriptRapidToggle \/ ScriptRapidToggleAccelerated
  \/ SteadyNext

SpecScript == ScriptInit /\ [][ScriptNext]_vars

\* ------------------------------------------------------ count_gap_spikes
Max(a, b) == IF a >= b THEN a ELSE b

\* IsSpike with the comparison weakened: a gap equal to the threshold counts.
IsSpikeOrEqual(gap, frame_time, percent) ==
  gap * 100 >= frame_time * (100 + percent)

\* threshold_ms = frame_time_ms * (1.0 + spike_threshold_percent / 100.0);
\* gap > threshold_ms, in exact arithmetic (both sides times 100)
IsSpike(gap, frame_time, percent) ==
  gap * 100 > frame_time * (100 + percent)

\* The loop of count_gap_spikes from the 0-based index i on:
\*   gap = timestamps[i] - timestamps[i-1]; if gap > threshold_ms: spike_count += 1
RECURSIVE SpikesFrom(_, _, _, _, _)
SpikesFrom(timestamps, frame_time, percent, i, count) ==
  IF i >= Len(timestamps) THEN count
  ELSE SpikesFrom(timestamps, frame_time, percent, i + 1,
         IF IsSpike(timestamps[i + 1] - timestamps[i], frame_time, percent)
           THEN count + 1 ELSE count)

\* count_gap_spikes that starts at max(1, start_idx), one index early.
count_gap_spikes_from_start(timestamps, frame_time, percent, start) ==
  IF Len(timestamps) > 1
    THEN SpikesFrom(timestamps, frame_time, percent, Max(1, start), 0)
    ELSE 0

\* count_gap_spikes(context, frame_time_ms, spike_threshold_percent, start_idx)
count_gap_spikes(timestamps, frame_time, percent, start) ==
  IF Len(timestamps) > 1
    THEN SpikesFrom(timestamps, frame_time, percent, Max(1, start + 1), 0)
    ELSE 0

\* One call of count_gap_spikes on the context's timestamp log.
CountGapSpikes ==
  /\ t_pc = "spikes"
  /\ spike_count' = count_gap_spikes(frame_timestamps, frame_time_ms,
                                     spike_threshold_percent, start_idx)
  /\ t_pc' = "spikes_done"
  /\ UNCHANGED <<num_iterations, iteration, frames_before_switch,
                 total_spike_count, total_gaps, ae_frame_time_sum,
                 ae_frame_time_count, gap_i, gap_end, unexpected_spikes,
                 adjusted_gaps, checks, switched_at, frame_time_ms,
                 spike_threshold_percent, start_idx, frame_time_supplied,
                 average>>
  /\ UNCHANGED <<ctx_vars, cb_vars, now, dev_vars, scn_vars, ver_vars, wait_vars,
                 steady_vars, script_vars, fault_vars>>

\* ------------------------------------------ calculate_average_frame_time
\* AverageFrom that adds a spike's gap to the sum while leaving it uncounted.
RECURSIVE AverageFromSumsSpikes(_, _, _, _, _, _, _)
AverageFromSumsSpikes(timestamps, supplied, frame_time, percent, i, total, count) ==
  IF i >= Len(timestamps) THEN <<total, count>>
  ELSE LET gap == timestamps[i + 1] - timestamps[i]
       IN IF supplied /\ IsSpike(gap, frame_time, percent)
            THEN AverageFromSumsSpikes(timestamps, supplied, frame_time, percent,
                                       i + 1, total + gap, count)
            ELSE AverageFromSumsSpikes(timestamps, supplied, frame_time, percent,
                                       i + 1, total + gap, count + 1)

\* The loop of calculate_average_frame_time from the 0-based index i on:
\*   gap = timestamps[i] - timestamps[i-1]
\*   if spike_threshold_ms is not None and gap > spike_threshold_ms: continue
\*   total_time += gap; count += 1
\* It yields <<total_time, count>>.
RECURSIVE AverageFrom(_, _, _, _, _, _, _)
AverageFrom(timestamps, supplied, frame_time, percent, i, total, count) ==
  IF i >= Len(timestamps) THEN <<total, count>>
  ELSE LET gap == timestamps[i + 1] - timestamps[i]
       IN IF supplied /\ IsSpike(gap, frame_time, percent)
            THEN AverageFrom(timestamps, supplied, frame_time, percent,
                             i + 1, total, count)
            ELSE AverageFrom(timestamps, supplied, frame_time, percent,
                             i + 1, total + gap, count + 1)

\* calculate_average_frame_time(context, start_idx, frame_time_ms,
\* spike_threshold_percent): total_time / count as the fraction
\* <<total_time, count>>, or 0 (the fraction <<0, 1>>) with fewer than two
\* timestamps or no gap left: `return total_time / count if count > 0 else 0.0`
calculate_average_frame_time(timestamps, start, supplied, frame_time, percent) ==
  IF Len(timestamps) < 2 THEN NoAverage
  ELSE LET sums == AverageFrom(timestamps, supplied, frame_time, percent,
                               Max(1, start + 1), 0, 0)
       IN [total_time |-> sums[1], count |-> sums[2],
           value |-> IF sums[2] > 0 THEN <<sums[1], sums[2]>> ELSE <<0, 1>>]

\* One call of calculate_average_frame_time on the context's timestamp log.
CalculateAverage ==
  /\ t_pc = "spikes_done"
  /\ average' = calculate_average_frame_time(frame_timestamps, start_idx,
                   frame_time_supplied, frame_time_ms, spike_threshold_percent)
  /\ t_pc' = "average_done"
  /\ UNCHANGED <<num_iterations, iteration, frames_before_switch,
                 total_spike_count, total_gaps, ae_frame_time_sum,
                 ae_frame_time_count, gap_i, gap_end, unexpected_spikes,
                 adjusted_gaps, checks, switched_at, frame_time_ms,
                 spike_threshold_percent, start_idx, spike_count,
                 frame_time_supplied>>
  /\ UNCHANGED <<ctx_vars, cb_vars, now, dev_vars, scn_vars, ver_vars, wait_vars,
                 steady_vars, script_vars, fault_vars>>

\* Timestamp logs of up to MaxStamps entries that start at 0 and advance by
\* gaps below the frame time, equal to it, equal to the 10% threshold, and
\* above it; frame time 10 with thresholds of 0% and 10%.
MaxStamps == 5
GapValues == {5, 10, 11, 15}
FrameTimes == {10}
SpikePercents == {0, 10}

\* The timestamps that start at 0 and advance by `gaps`.
RECURSIVE SumTo(_, _)
SumTo(gaps, n) == IF n = 0 THEN 0 ELSE SumTo(gaps, n - 1) + gaps[n]

StampsOf(gaps) == [i \in 1..(Len(gaps) + 1) |-> SumTo(gaps, i - 1)]

StampLogs == {<<>>} \cup {StampsOf(gaps) : gaps \in SeqsUpTo(GapValues, MaxStamps - 1)}

SpikesInit ==
  /\ frame_timestamps \in StampLogs
  /\ frame_count = Len(frame_timestamps)
  /\ frame_ae_metadata = Repeat(NoMeta, Len(frame_timestamps))
  /\ delivered = frame_ae_metadata
  /\ cb_pc = "idle" /\ cb_frame = NoMeta
  /\ now = 0
  /\ sensor = "Closed" /\ device_ae = TRUE /\ stabilized = FALSE
  /\ exception = "none"
  /\ ScriptIdle
  /\ NoFaults
  /\ ToggleIdle("idle")
  /\ VerifyIdle
  /\ WaitIdle
  /\ SteadyIdle
  /\ t_pc = "spikes" /\ num_iterations = 0 /\ iteration = 0
  /\ frames_before_switch = 0 /\ unexpected_spikes = 0 /\ adjusted_gaps = 0
  /\ total_spike_count = 0 /\ total_gaps = 0
  /\ ae_frame_time_sum = 0 /\ ae_frame_time_count = 0
  /\ gap_i = 0 /\ gap_end = 0 /\ checks = <<>> /\ switched_at = 0
  /\ frame_time_ms \in FrameTimes
  /\ spike_threshold_percent \in SpikePercents
  /\ start_idx \in -1..MaxStamps
  /\ spike_count = 0
  /\ frame_time_supplied \in BOOLEAN /\ average = NoAverage

SpikesNext == CountGapSpikes \/ CalculateAverage

SpecSpikes == SpikesInit /\ [][SpikesNext]_vars

\* ------- test: Switch from manual exposure to auto exposure (module level)
\* The iterations run (NUM_MANUAL_TO_AE_ITERATIONS = 20 in the code), each
\* time.sleep(1.5) in polling ticks, and the most frames the device delivers.
NumIterations == 2
HoldTicks == 2
MaxTestFrames == 4

MAX_ACCEPTABLE_SPIKE_RATE_PERCENT == 4
frames_to_skip_after_switch == 2

totals_vars == <<total_spike_count, total_gaps, ae_frame_time_sum,
                 ae_frame_time_count>>
stats_vars == <<unexpected_spikes, adjusted_gaps, checks>>
spike_call_vars == <<frame_time_ms, spike_threshold_percent, start_idx, spike_count,
                     frame_time_supplied, average>>

\* context = StreamingContext(); depth_sensor.open(...); depth_sensor.start(...);
\* num_iterations = NUM_MANUAL_TO_AE_ITERATIONS; the totals start at 0
ManualOpen ==
  /\ t_pc = "m_open"
  /\ OpenAndStart
  /\ total_spike_count' = 0 /\ total_gaps' = 0
  /\ ae_frame_time_sum' = 0 /\ ae_frame_time_count' = 0
  /\ iteration' = 0
  /\ t_pc' = "m_loop"
  /\ UNCHANGED <<num_iterations, frames_before_switch, gap_i, gap_end,
                 switched_at, stats_vars, spike_call_vars>>
  /\ UNCHANGED <<ctx_vars, cb_vars, now, scn_vars, ver_vars, wait_vars, steady_vars, script_vars, fault_vars>>

\* for iteration in range(num_iterations):
ManualLoop ==
  /\ t_pc = "m_loop"
  /\ t_pc' = IF iteration < num_iterations THEN "m_manual" ELSE "m_stats"
  /\ UNCHANGED <<num_iterations, iteration, frames_before_switch, gap_i, gap_end,
                 switched_at, totals_vars, stats_vars, spike_call_vars>>
  /\ UNCHANGED <<ctx_vars, cb_vars, now, dev_vars, scn_vars, ver_vars, wait_vars,
                 steady_vars, script_vars, fault_vars>>

\* depth_sensor.set_option(enable_auto_exposure, 0); set_option(exposure, long_exposure)
ManualSet ==
  /\ t_pc = "m_manual"
  /\ \E raised \in MayRaise :
       /\ SetOption(FALSE, raised)
       /\ t_pc' = IF raised THEN "m_finally" ELSE "m_hold_manual"
  /\ UNCHANGED <<num_iterations, iteration, frames_before_switch, gap_i, gap_end,
                 switched_at, totals_vars, stats_vars, spike_call_vars>>
  /\ UNCHANGED <<ctx_vars, cb_vars, now, scn_vars, ver_vars, wait_vars, steady_vars, script_vars, fault_vars>>

\* time.sleep(1.5) with long manual exposure in force
ManualHold ==
  /\ t_pc = "m_hold_manual"
  /\ now' = now + HoldTicks
  /\ t_pc' = "m_read"
  /\ UNCHANGED <<num_iterations, iteration, frames_before_switch, gap_i, gap_end,
                 switched_at, totals_vars, stats_vars, spike_call_vars>>
  /\ UNCHANGED <<ctx_vars, cb_vars, dev_vars, scn_vars, ver_vars, wait_vars,
                 steady_vars, script_vars, fault_vars>>

\* ManualReadCount that resets the counter it has just read.
ManualReadCountResets ==
  /\ t_pc = "m_read"
  /\ frames_before_switch' = frame_count
  /\ frame_count' = 0
  /\ t_pc' = "m_switch"
  /\ UNCHANGED <<num_iterations, iteration, gap_i, gap_end,
                 switched_at, totals_vars, stats_vars, spike_call_vars>>
  /\ UNCHANGED <<frame_timestamps, frame_ae_metadata, cb_vars, now, dev_vars,
                 scn_vars, ver_vars, wait_vars, steady_vars, script_vars, fault_vars>>

\* frames_before_switch = context.frame_count
ManualReadCount ==
  /\ t_pc = "m_read"
  /\ frames_before_switch' = frame_count
  /\ t_pc' = "m_switch"
  /\ UNCHANGED <<num_iterations, iteration, gap_i, gap_end,
                 switched_at, totals_vars, stats_vars, spike_call_vars>>
  /\ UNCHANGED <<ctx_vars, cb_vars, now, dev_vars, scn_vars, ver_vars, wait_vars,
                 steady_vars, script_vars, fault_vars>>

\* depth_sensor.set_option(rs.option.enable_auto_exposure, 1)
ManualSwitchToAuto ==
  /\ t_pc = "m_switch"
  /\ \E raised \in MayRaise :
       /\ SetOption(TRUE, raised)
       /\ switched_at' = IF raised THEN switched_at ELSE Len(delivered)
       /\ t_pc' = IF raised THEN "m_finally" ELSE "m_hold_auto"
  /\ UNCHANGED <<num_iterations, iteration, frames_before_switch, gap_i, gap_end,
                 totals_vars, stats_vars, spike_call_vars>>
  /\ UNCHANGED <<ctx_vars, cb_vars, now, scn_vars, ver_vars, wait_vars, steady_vars, script_vars, fault_vars>>

\* time.sleep(1.5) with auto exposure in force
ManualAutoHold ==
  /\ t_pc = "m_hold_auto"
  /\ now' = now + HoldTicks
  /\ t_pc' = "m_spikes"
  /\ UNCHANGED <<num_iterations, iteration, frames_before_switch, gap_i, gap_end,
                 switched_at, totals_vars, stats_vars, spike_call_vars>>
  /\ UNCHANGED <<ctx_vars, cb_vars, dev_vars, scn_vars, ver_vars, wait_vars,
                 steady_vars, script_vars, fault_vars>>

\* iteration_spike_count = count_gap_spikes(context, frame_time_ms, 10.0,
\*                                          start_idx=frames_before_switch);
\* total_spike_count += iteration_spike_count
ManualCountSpikes ==
  /\ t_pc = "m_spikes"
  /\ total_spike_count' = total_spike_count +
       count_gap_spikes(frame_timestamps, frame_time_ms, spike_threshold_percent,
                        frames_before_switch)
  /\ t_pc' = "m_gaps"
  /\ UNCHANGED <<num_iterations, iteration, frames_before_switch, gap_i, gap_end,
                 switched_at, total_gaps, ae_frame_time_sum, ae_frame_time_count,
                 stats_vars, spike_call_vars>>
  /\ UNCHANGED <<ctx_vars, cb_vars, now, dev_vars, scn_vars, ver_vars, wait_vars,
                 steady_vars, script_vars, fault_vars>>

\* iteration_gaps = max(1, context.frame_count - frames_before_switch - 1);
\* total_gaps += iteration_gaps
ManualCountGaps ==
  /\ t_pc = "m_gaps"
  /\ total_gaps' = total_gaps + Max(1, frame_count - frames_before_switch - 1)
  /\ t_pc' = "m_average"
  /\ UNCHANGED <<num_iterations, iteration, frames_before_switch, gap_i, gap_end,
                 switched_at, total_spike_count, ae_frame_time_sum,
                 ae_frame_time_count, stats_vars, spike_call_vars>>
  /\ UNCHANGED <<ctx_vars, cb_vars, now, dev_vars, scn_vars, ver_vars, wait_vars,
                 steady_vars, script_vars, fault_vars>>

\* ae_start_idx = frames_before_switch + frames_to_skip_after_switch;
\* for i in range(max(1, ae_start_idx + 1), context.frame_count):
ManualAverageStart ==
  /\ t_pc = "m_average"
  /\ gap_i' = Max(1, frames_before_switch + frames_to_skip_after_switch + 1)
  /\ gap_end' = frame_count
  /\ t_pc' = "m_gap"
  /\ UNCHANGED <<num_iterations, iteration, frames_before_switch,
                 switched_at, totals_vars, stats_vars, spike_call_vars>>
  /\ UNCHANGED <<ctx_vars, cb_vars, now, dev_vars, scn_vars, ver_vars, wait_vars,
                 steady_vars, script_vars, fault_vars>>

\* gap = context.frame_timestamps[i] - context.frame_timestamps[i-1];
\* if gap <= spike_threshold_ms: ae_frame_time_sum += gap; ae_frame_time_count += 1
\* An index beyond the timestamp log raises IndexError, which leaves the test
\* through its finally block.
ManualAverageStep ==
  /\ t_pc = "m_gap"
  /\ IF gap_i >= gap_end
       THEN /\ iteration' = iteration + 1
            /\ gap_i' = 0 /\ gap_end' = 0
            /\ t_pc' = "m_loop"
            /\ UNCHANGED <<ae_frame_time_sum, ae_frame_time_count, exception>>
       ELSE IF gap_i >= Len(frame_timestamps)
         THEN /\ exception' = "IndexError"
              /\ t_pc' = "m_finally"
              /\ UNCHANGED <<iteration, gap_i, gap_end, ae_frame_time_sum,
                             ae_frame_time_count>>
         ELSE LET gap == frame_timestamps[gap_i + 1] - frame_timestamps[gap_i]
              IN /\ IF ~IsSpike(gap, frame_time_ms, spike_threshold_percent)
                      THEN /\ ae_frame_time_sum' = ae_frame_time_sum + gap
                           /\ ae_frame_time_count' = ae_frame_time_count + 1
                      ELSE UNCHANGED <<ae_frame_time_sum, ae_frame_time_count>>
                 /\ gap_i' = gap_i + 1
                 /\ t_pc' = "m_gap"
                 /\ UNCHANGED <<iteration, gap_end, exception>>
  /\ UNCHANGED <<num_iterations, frames_before_switch, switched_at,
                 total_spike_count, total_gaps, stats_vars, spike_call_vars>>
  /\ UNCHANGED <<ctx_vars, cb_vars, now, sensor, device_ae, stabilized, scn_vars,
                 ver_vars, wait_vars, steady_vars, script_vars, fault_vars>>

\* UnexpectedSpikes without the floor at 0.
UnexpectedSpikesNoFloor(raw_spike_count, iterations) ==
  raw_spike_count - 2 * iterations

\* unexpected_spikes = max(0, total_spike_count - expected_spike_gaps)
\* with expected_spike_gaps = 2 * num_iterations
UnexpectedSpikes(raw_spike_count, iterations) ==
  Max(0, raw_spike_count - 2 * iterations)

\* AdjustedGaps without the floor at 1.
AdjustedGapsNoFloor(gaps, iterations) == gaps - 2 * iterations

\* adjusted_gaps = max(1, total_gaps - expected_spike_gaps)
AdjustedGaps(gaps, iterations) == Max(1, gaps - 2 * iterations)

\* adjusted_spike_rate = (unexpected_spikes / adjusted_gaps) * 100.0;
\* adjusted_spike_rate < MAX_ACCEPTABLE_SPIKE_RATE_PERCENT, in exact arithmetic
SpikeRateAcceptable(spikes, gaps) ==
  spikes * 100 < MAX_ACCEPTABLE_SPIKE_RATE_PERCENT * gaps

\* The final statistics and the two test.check calls of the test:
\* test.check(context.frame_count > 0); test.check(adjusted_spike_rate < MAX...)
ManualStats ==
  /\ t_pc = "m_stats"
  /\ unexpected_spikes' = UnexpectedSpikes(total_spike_count, num_iterations)
  /\ adjusted_gaps' = AdjustedGaps(total_gaps, num_iterations)
  /\ checks' = <<frame_count > 0,
                 SpikeRateAcceptable(unexpected_spikes', adjusted_gaps')>>
  /\ t_pc' = "m_finally"
  /\ UNCHANGED <<num_iterations, iteration, frames_before_switch, gap_i, gap_end,
                 switched_at, totals_vars, spike_call_vars>>
  /\ UNCHANGED <<ctx_vars, cb_vars, now, dev_vars, scn_vars, ver_vars, wait_vars,
                 steady_vars, script_vars, fault_vars>>

\* finally: try: depth_sensor.stop(); depth_sensor.close()  except RuntimeError: pass
ManualFinally ==
  /\ t_pc = "m_finally"
  /\ StopAndClose
  /\ t_pc' = "done"
  /\ UNCHANGED <<num_iterations, iteration, frames_before_switch, gap_i, gap_end,
                 switched_at, totals_vars, stats_vars, spike_call_vars>>
  /\ UNCHANGED <<ctx_vars, cb_vars, now, scn_vars, ver_vars, wait_vars, steady_vars, script_vars, fault_vars>>

ManualStep ==
  \/ ManualOpen \/ ManualLoop \/ ManualSet \/ ManualHold \/ ManualReadCount
  \/ ManualSwitchToAuto \/ ManualAutoHold \/ ManualCountSpikes \/ ManualCountGaps
  \/ ManualAverageStart \/ ManualAverageStep \/ ManualStats \/ ManualFinally

\* The state before the test starts: the sensor is closed, the frame time
\* (1000.0 / fps) is one tick and the spike threshold is 10%.
ManualInit ==
  /\ ContextInit
  /\ cb_pc = "idle" /\ cb_frame = NoMeta /\ delivered = <<>>
  /\ now = 0
  /\ sensor = "Closed" /\ device_ae \in BOOLEAN /\ stabilized = FALSE
  /\ exception = "none"
  /\ ScriptIdle
  /\ NoFaults
  /\ ToggleIdle("idle")
  /\ VerifyIdle
  /\ WaitIdle
  /\ SteadyIdle
  /\ t_pc = "m_open" /\ num_iterations = NumIterations /\ iteration = 0
  /\ frames_before_switch = 0 /\ unexpected_spikes = 0 /\ adjusted_gaps = 0
  /\ total_spike_count = 0 /\ total_gaps = 0
  /\ ae_frame_time_sum = 0 /\ ae_frame_time_count = 0
  /\ gap_i = 0 /\ gap_end = 0 /\ checks = <<>> /\ switched_at = 0
  /\ frame_time_ms = 1 /\ spike_threshold_percent = 10 /\ start_idx = 0
  /\ spike_count = 0
  /\ frame_time_supplied = TRUE /\ average = NoAverage

\* The frames of this test's device: AUTO_EXPOSURE metadata 0 or 1.
ManualFrames == {<<0>>, <<1>>}

ManualNext == ManualStep \/ Producer(ManualFrames, MaxTestFrames, TRUE)

SpecManual == ManualInit /\ [][ManualNext]_vars

\* ---------------------- the final statistics of the manual-to-AE test
\* Every total the loop can hand to the statistics: up to MaxIterations
\* iterations, MaxRawSpikes raw spikes and MaxTotalGaps gaps.
MaxIterations == 20
MaxRawSpikes == 42
MaxTotalGaps == 50

StatsInit ==
  /\ \E frames \in 0..1 :
       /\ frame_count = frames
       /\ frame_timestamps = Repeat(0, frames)
       /\ frame_ae_metadata = Repeat(<<1>>, frames)
       /\ delivered = frame_ae_metadata
  /\ cb_pc = "idle" /\ cb_frame = NoMeta
  /\ now = 0
  /\ sensor = "Started" /\ device_ae = TRUE /\ stabilized = FALSE
  /\ exception = "none"
  /\ ScriptIdle
  /\ NoFaults
  /\ ToggleIdle("idle")
  /\ VerifyIdle
  /\ WaitIdle
  /\ SteadyIdle
  /\ t_pc = "m_stats"
  /\ num_iterations \in 0..MaxIterations
  /\ iteration = num_iterations
  /\ total_spike_count \in 0..MaxRawSpikes
  /\ total_gaps \in num_iterations..MaxTotalGaps
  /\ frames_before_switch = 0 /\ unexpected_spikes = 0 /\ adjusted_gaps = 0
  /\ ae_frame_time_sum = 0 /\ ae_frame_time_count = 0
  /\ gap_i = 0 /\ gap_end = 0 /\ checks = <<>> /\ switched_at = 0
  /\ frame_time_ms = 1 /\ spike_threshold_percent = 10 /\ start_idx = 0
  /\ spike_count = 0
  /\ frame_time_supplied = TRUE /\ average = NoAverage

StatsNext == ManualStats \/ ManualFinally

SpecStats == StatsInit /\ [][StatsNext]_vars

\* ------------------------ test: Baseline streaming (module level)
\* target_frames (400 in the code) and the barrier's timeout (20.0 s in the
\* code) in polling ticks.
BaselineFrames == 2
BaselineTimeoutTicks == 2

\* context = StreamingContext(); depth_sensor.open(...); depth_sensor.start(...)
BaselineOpen ==
  /\ t_pc = "b_open"
  /\ OpenAndStart
  /\ t_pc' = "b_set"
  /\ UNCHANGED <<num_iterations, iteration, frames_before_switch, gap_i, gap_end,
                 switched_at, totals_vars, stats_vars, spike_call_vars>>
  /\ UNCHANGED <<ctx_vars, cb_vars, now, scn_vars, ver_vars, wait_vars, steady_vars, script_vars, fault_vars>>

\* depth_sensor.set_option(rs.option.enable_auto_exposure, True)
\* The call stands in no try block: when it raises, the exception leaves the test.
BaselineSet ==
  /\ t_pc = "b_set"
  /\ \E raised \in MayRaise :
       /\ SetOption(TRUE, raised)
       /\ t_pc' = IF raised THEN "done" ELSE "b_sleep"
  /\ UNCHANGED <<num_iterations, iteration, frames_before_switch, gap_i, gap_end,
                 switched_at, totals_vars, stats_vars, spike_call_vars>>
  /\ UNCHANGED <<ctx_vars, cb_vars, now, scn_vars, ver_vars, wait_vars, steady_vars, script_vars, fault_vars>>

\* time.sleep(1.0)
BaselineSleep ==
  /\ t_pc = "b_sleep"
  /\ now' = now + 1
  /\ t_pc' = "b_collect"
  /\ UNCHANGED <<num_iterations, iteration, frames_before_switch, gap_i, gap_end,
                 switched_at, totals_vars, stats_vars, spike_call_vars>>
  /\ UNCHANGED <<ctx_vars, cb_vars, dev_vars, scn_vars, ver_vars, wait_vars,
                 steady_vars, script_vars, fault_vars>>

\* wait_for_frames(context, target_frames, timeout=20.0)
BaselineCollect ==
  /\ t_pc = "b_collect"
  /\ CallWait(BaselineFrames, BaselineTimeoutTicks)
  /\ t_pc' = "b_wait"
  /\ UNCHANGED <<num_iterations, iteration, frames_before_switch, gap_i, gap_end,
                 switched_at, totals_vars, stats_vars, spike_call_vars>>
  /\ UNCHANGED <<ctx_vars, cb_vars, now, dev_vars, scn_vars, ver_vars, steady_vars, script_vars, fault_vars>>

\* if not wait_for_frames(...): ... else: ...
BaselineCollected ==
  /\ t_pc = "b_wait"
  /\ w_pc = "done"
  /\ WaitReturn
  /\ t_pc' = IF w_result THEN "b_stop" ELSE "b_fail"
  /\ UNCHANGED <<num_iterations, iteration, frames_before_switch, gap_i, gap_end,
                 switched_at, totals_vars, stats_vars, spike_call_vars>>
  /\ UNCHANGED <<ctx_vars, cb_vars, now, dev_vars, scn_vars, ver_vars, steady_vars, script_vars, fault_vars>>

\* try: stop(); close()  except RuntimeError: pass;  test.check(False, ...)
BaselineFail ==
  /\ t_pc = "b_fail"
  /\ StopAndClose
  /\ checks' = <<FALSE>>
  /\ t_pc' = "done"
  /\ UNCHANGED <<num_iterations, iteration, frames_before_switch, gap_i, gap_end,
                 switched_at, totals_vars, unexpected_spikes, adjusted_gaps,
                 spike_call_vars>>
  /\ UNCHANGED <<ctx_vars, cb_vars, now, scn_vars, ver_vars, wait_vars, steady_vars, script_vars, fault_vars>>

\* try: stop(); close()  except RuntimeError: pass
BaselineStop ==
  /\ t_pc = "b_stop"
  /\ StopAndClose
  /\ t_pc' = "b_stats"
  /\ UNCHANGED <<num_iterations, iteration, frames_before_switch, gap_i, gap_end,
                 switched_at, totals_vars, stats_vars, spike_call_vars>>
  /\ UNCHANGED <<ctx_vars, cb_vars, now, scn_vars, ver_vars, wait_vars, steady_vars, script_vars, fault_vars>>

\* baseline_spike_count = count_gap_spikes(context, frame_time_ms, 10.0);
\* total_gaps = max(1, len(context.frame_timestamps) - 1);
\* test.check(baseline_spike_rate < MAX_ACCEPTABLE_SPIKE_RATE_PERCENT)
BaselineStats ==
  /\ t_pc = "b_stats"
  /\ total_spike_count' = count_gap_spikes(frame_timestamps, frame_time_ms,
                                           spike_threshold_percent, 0)
  /\ total_gaps' = Max(1, Len(frame_timestamps) - 1)
  /\ checks' = <<SpikeRateAcceptable(total_spike_count', total_gaps')>>
  /\ t_pc' = "done"
  /\ UNCHANGED <<num_iterations, iteration, frames_before_switch, gap_i, gap_end,
                 switched_at, ae_frame_time_sum, ae_frame_time_count,
                 unexpected_spikes, adjusted_gaps, spike_call_vars>>
  /\ UNCHANGED <<ctx_vars, cb_vars, now, dev_vars, scn_vars, ver_vars, wait_vars,
                 steady_vars, script_vars, fault_vars>>

BaselineStep ==
  \/ BaselineOpen \/ BaselineSet \/ BaselineSleep \/ BaselineCollect
  \/ BaselineCollected \/ BaselineFail \/ BaselineStop \/ BaselineStats

\* ------------------ the three tests of test-depth-ae-toggle.py, one per run
\* The locals of the module-level tests with the test at position `at`.
TestAt(at, iterations) ==
  /\ t_pc = at /\ num_iterations = iterations /\ iteration = 0
  /\ frames_before_switch = 0 /\ unexpected_spikes = 0 /\ adjusted_gaps = 0
  /\ total_spike_count = 0 /\ total_gaps = 0
  /\ ae_frame_time_sum = 0 /\ ae_frame_time_count = 0
  /\ gap_i = 0 /\ gap_end = 0 /\ checks = <<>> /\ switched_at = 0
  /\ frame_time_ms = 1 /\ spike_threshold_percent = 10 /\ start_idx = 0
  /\ spike_count = 0
  /\ frame_time_supplied = TRUE /\ average = NoAverage

\* One of the three tests is about to start on a closed sensor.
SessionStart ==
  /\ ContextInit
  /\ cb_pc = "idle" /\ cb_frame = NoMeta /\ delivered = <<>>
  /\ now = 0
  /\ sensor = "Closed" /\ device_ae \in BOOLEAN /\ stabilized = FALSE
  /\ exception = "none"
  /\ ScriptIdle
  /\ VerifyIdle
  /\ WaitIdle
  /\ SteadyIdle
  /\ \/ ToggleIdle("idle") /\ TestAt("b_open", 0)
     \/ ToggleIdle("open") /\ TestAt("idle", 0)
     \/ ToggleIdle("idle") /\ TestAt("m_open", NumIterations)

\* The most frames the device delivers in such a run.
MaxSessionFrames == 4

SessionNext ==
  \/ BaselineStep
  \/ Control
  \/ ManualStep
  \/ Producer({<<1>>}, MaxSessionFrames, TRUE)

SessionInit == SessionStart /\ NoFaults

SpecSession == SessionInit /\ [][SessionNext]_vars

\* The three tests on a device that can reject state-change requests.
FaultyInit == SessionStart /\ set_option_fails = TRUE

SpecFaulty == FaultyInit /\ [][SessionNext]_vars

\* ------------------------------------- the spike rates of the three tests
\* The statistics of test-depth-ae-toggle.py on every timestamp log of up to
\* MaxStamps frames: either the baseline test after its session is closed, or
\* the only iteration of a one-iteration manual-to-AE test after its hold in
\* auto exposure, with the count read at the switch anywhere in the log and
\* the device free to deliver one more frame while the statistics run.
RatesInit ==
  /\ frame_timestamps \in StampLogs
  /\ frame_count = Len(frame_timestamps)
  /\ frame_ae_metadata = Repeat(<<1>>, Len(frame_timestamps))
  /\ delivered = frame_ae_metadata
  /\ cb_pc = "idle" /\ cb_frame = NoMeta
  /\ now = IF frame_timestamps = <<>> THEN 0
           ELSE frame_timestamps[Len(frame_timestamps)]
  /\ device_ae = TRUE /\ stabilized = FALSE
  /\ exception = "none"
  /\ ScriptIdle
  /\ NoFaults
  /\ ToggleIdle("idle")
  /\ VerifyIdle
  /\ WaitIdle
  /\ SteadyIdle
  /\ \/ /\ t_pc = "b_stats" /\ sensor = "Closed"
        /\ num_iterations = 0 /\ frames_before_switch = 0
     \/ /\ t_pc = "m_spikes" /\ sensor = "Started"
        /\ num_iterations = 1 /\ frames_before_switch \in 0..frame_count
  /\ iteration = 0
  /\ unexpected_spikes = 0 /\ adjusted_gaps = 0
  /\ total_spike_count = 0 /\ total_gaps = 0
  /\ ae_frame_time_sum = 0 /\ ae_frame_time_count = 0
  /\ gap_i = 0 /\ gap_end = 0 /\ checks = <<>>
  /\ switched_at = frames_before_switch
  /\ frame_time_ms \in FrameTimes /\ spike_threshold_percent = 10
  /\ start_idx = 0 /\ spike_count = 0
  /\ frame_time_supplied = TRUE /\ average = NoAverage

RatesNext ==
  \/ BaselineStats
  \/ ManualCountSpikes \/ ManualCountGaps \/ ManualAverageStart
  \/ ManualAverageStep \/ ManualLoop \/ ManualStats \/ ManualFinally
  \/ Producer({<<1>>}, MaxStamps + 1, TRUE)

SpecRates == RatesInit /\ [][RatesNext]_vars

\* ================================================================ claims
IsPrefix(a, b) == Len(a) <= Len(b) /\ \A i \in 1..Len(a) : a[i] = b[i]

\* C1 (as claimed): in every state the control thread can observe,
\* frame_count equals the length of the metadata log and of the timestamp log.
\* frame_callback counts the frame before it appends it, so this fails.
C1_CountEqualsLogLength ==
  /\ frame_count = Len(frame_ae_metadata)
  /\ frame_count = Len(frame_timestamps)

\* C2: whenever no invocation of frame_callback is in progress, after N
\* invocations frame_count = N and both logs hold N entries; entry i of the
\* metadata log is the metadata of the i-th frame delivered, or None when that
\* frame lacks the field.
C2_CompletedCallbacksLogged ==
  cb_pc = "idle" =>
    /\ frame_count = Len(delivered)
    /\ Len(frame_timestamps) = Len(delivered)
    /\ Len(frame_ae_metadata) = Len(delivered)
    /\ \A i \in 1..Len(delivered) : frame_ae_metadata[i] = delivered[i]

\* C2 witness: three completed invocations, the second frame without metadata.
C2_Witness ==
  /\ cb_pc = "idle"
  /\ frame_count = 3
  /\ frame_ae_metadata = <<(<<1>>), NoMeta, (<<0>>)>>

\* C3: in a session frame_count never decreases and both logs only grow at
\* their end: every step leaves each log a prefix of its next value.
C3_AppendOnly ==
  [][/\ frame_count' >= frame_count
     /\ IsPrefix(frame_ae_metadata, frame_ae_metadata')
     /\ IsPrefix(frame_timestamps, frame_timestamps')]_vars

\* C3 witness: the producer is inside frame_callback while the verifier loops
\* over a log that already holds an entry.
C3_Witness ==
  /\ v_pc = "loop"
  /\ cb_pc = "metadata"
  /\ Len(frame_ae_metadata) >= 1
  /\ toggle_idx >= 1

\* C5: every call of wait_for_frames returns, no later than one polling tick
\* after its timeout has elapsed, and toggle_ae_while_streaming returns,
\* whatever the producer does (it may never deliver a frame).
C5_WaitsTerminate ==
  /\ (w_pc = "enter") ~> (w_pc = "done")
  /\ <>(pc = "done")
  /\ [](w_pc = "done" => now - w_start_time <= w_timeout + 1)

\* C5 witness: a barrier that timed out with no frame ever delivered, one tick
\* after its timeout.
C5_Witness ==
  /\ w_pc = "done"
  /\ ~w_result
  /\ frame_count = 0
  /\ now - w_start_time = w_timeout + 1

\* C8 (as claimed): no frame is passed to the verifier unless a stabilization
\* barrier has succeeded since the last state-change request, the initial
\* request included.  The initial set_option is followed by a sleep only.
C8_EveryRequestStabilized ==
  v_pc = "loop" => stabilized

\* C8 (amended): in every iteration after the first, the verifier runs only
\* after the stabilization barrier that followed the toggle request succeeded.
C8_ToggleRequestsStabilized ==
  (v_pc = "loop" /\ toggle_idx > 0) => stabilized

\* C8 witness: the verifier running in the second iteration, after a toggle.
C8_Witness ==
  /\ v_pc = "loop"
  /\ toggle_idx = 1
  /\ toggle_count = 1
  /\ stabilized

\* C9: in every iteration after the first, each index the verifier examines
\* is at least frames_before, the count read after the stabilization barrier
\* returned, which is at least frames_between_toggles above the count read
\* at the toggle.
C9_StabilizationWindowExcluded ==
  (v_pc = "loop" /\ v_i < v_end /\ toggle_idx > 0) =>
    /\ v_i >= frames_before
    /\ frames_before >= frames_before_stabilize + FramesBetweenToggles

\* C9 witness: the verifier about to examine a frame in the second iteration
\* while more frames arrived during stabilization than the barrier asked for.
C9_Witness ==
  /\ v_pc = "loop"
  /\ v_i < v_end
  /\ toggle_idx = 1
  /\ frames_before > frames_before_stabilize + FramesBetweenToggles

\* The frame with 0-based index i carries metadata that disagrees with `expected`.
FrameDisagrees(i, expected) ==
  /\ delivered[i + 1] # NoMeta
  /\ (delivered[i + 1][1] # 0) # expected

\* C10 (as claimed): when the verifier returns, if a frame whose index lies in
\* its window [frames_before, frame_count at the call) carries metadata that
\* disagrees with the state in force, the returned error count is positive.
\* A frame counted but not yet appended at the call is skipped, so this fails.
C10_SingleMismatchCounted ==
  v_pc = "done" =>
    ((\E i \in frames_before..(v_end - 1) : FrameDisagrees(i, v_expected))
       => v_errors > 0)

\* The count had risen by the target when the timeout elapsed (or, when the
\* call returned before the timeout elapsed, by the time it returned).
ReachedInTime ==
  IF w_deadline_count = -1
    THEN frame_count - w_frames_before >= w_target
    ELSE w_deadline_count - w_frames_before >= w_target

\* C4 (as claimed): wait_for_frames returns True if and only if the count rose
\* by the target within the timeout.  The loop tests the count before the
\* timeout, so a count reached after the timeout but before the next poll
\* also returns True.
C4_TrueIffReachedInTime ==
  w_pc = "done" => (w_result <=> ReachedInTime)

\* C4 (amended): wait_for_frames returns True only when the count has risen by
\* the target above the base, always returns True when it rose by the target
\* within the timeout, and returns False only after the timeout has elapsed
\* with the count still short when it elapsed.
C4_BarrierResult ==
  w_pc = "done" =>
    /\ w_result => frame_count - w_frames_before >= w_target
    /\ ReachedInTime => w_result
    /\ ~w_result => (now - w_start_time > w_timeout /\ ~ReachedInTime)

\* C4 witness: base 5, target 3, success, and the count has grown past 8.
C4_Witness ==
  /\ w_pc = "done"
  /\ w_frames_before = 5
  /\ w_target = 3
  /\ w_result
  /\ frame_count = 9

\* C6: the verifier returns the number of indices in [start, end) that are
\* inside the log, hold metadata, and whose metadata read as a boolean
\* (nonzero = enabled) differs from the expected state.
C6_VerifierCountsMismatches ==
  v_pc = "done" =>
    v_errors = Cardinality({i \in frames_before..(v_end - 1) :
                  /\ i < Len(frame_ae_metadata)
                  /\ frame_ae_metadata[i + 1] # NoMeta
                  /\ (frame_ae_metadata[i + 1][1] # 0) # v_expected})

\* C6 witness: [true, true, None, false, true] against expected = true gives 1.
C6_Witness ==
  /\ v_pc = "done"
  /\ frame_ae_metadata = <<(<<2>>), (<<2>>), NoMeta, (<<0>>), (<<2>>)>>
  /\ frames_before = 0
  /\ v_end = 5
  /\ v_expected
  /\ v_errors = 1

\* C7 (as claimed): a frame without AUTO_EXPOSURE metadata counts neither as
\* a pass nor as a fail, so the steady-state check passes exactly when every
\* scored frame that carries metadata agrees with the expected state.  The
\* steady-state helper counts such a frame in frames_checked but never in
\* metadata_matches, so one frame without metadata fails the check.
C7_AbsentMetadataExcluded ==
  s_pc = "done" =>
    (check_passed = "pass" <=>
       \A k \in 1..Len(Take(received_frames, num_frames)) :
          received_frames[k] # NoMeta =>
            ((received_frames[k][1] # 0) = expected_ae_enabled))

\* C11: when a barrier wait of the rapid-toggle scenario returns False the
\* scenario goes straight to its failure path; from there it issues no
\* state-change request, starts no barrier wait and no verification, and
\* returns success = False with the frame count read at the return and the
\* metadata_errors accumulated so far; after the return nothing more happens.
C11_TimeoutFailsImmediately ==
  [][/\ (pc \in {"stabilize_wait", "collect_wait"} /\ w_pc = "done"
           /\ ~w_result /\ pc' # pc) => pc' = "fail_stop"
     /\ pc \in {"fail_stop", "fail_return"} =>
          /\ pc' \in {"fail_stop", "fail_return", "done"}
          /\ w_pc' = "idle" /\ v_pc' = "idle"
          /\ UNCHANGED <<device_ae, current_ae_state, metadata_errors,
                         toggle_count, toggle_idx>>
     /\ (pc = "fail_return" /\ pc' = "done") =>
          result' = [success |-> FALSE, total_frames |-> frame_count,
                     metadata_errors |-> metadata_errors]
     /\ pc = "done" =>
          /\ w_pc' = "idle" /\ v_pc' = "idle"
          /\ UNCHANGED <<pc, result, device_ae, metadata_errors, toggle_count>>
    ]_vars

\* C11 witness: the scenario returned through the failure path of the second
\* iteration, reporting the mismatch counted in the first.
C11_Witness ==
  /\ pc = "done"
  /\ toggle_idx = 1
  /\ ~result.success
  /\ result.metadata_errors = 1
  /\ result.total_frames >= 1

\* C13 (as claimed): whenever every verification window examined had zero
\* mismatches, the scenario reports a mismatch total of 0 and at least
\* K * F frames.  A run whose barrier timed out returns the partial frame
\* count, which can be below K * F with no mismatch counted.
C13_CleanRunEnoughFrames ==
  (pc = "done" /\ metadata_errors = 0) =>
    /\ result.metadata_errors = 0
    /\ result.total_frames >= NumToggles * FramesPerState

\* C13 (amended): each verification adds exactly the verifier's count to
\* metadata_errors, and that count is 0 when no frame of the window disagrees
\* with the expected state; a scenario that completed all K iterations (no
\* barrier timed out) reports that total, success, and at least K * F frames.
C13_CompletedRunTotals ==
  [][/\ (pc = "verify_wait" /\ pc' = "loop") =>
          /\ metadata_errors' = metadata_errors + v_errors
          /\ (\A i \in frames_before..(v_end - 1) :
                 i < Len(delivered) => ~FrameDisagrees(i, v_expected))
               => v_errors = 0
     /\ (pc = "return" /\ pc' = "done") =>
          /\ toggle_idx = NumToggles
          /\ result'.metadata_errors = metadata_errors
          /\ result'.total_frames >= NumToggles * FramesPerState
          /\ result'.success
    ]_vars

\* C13 witness: all K iterations completed over frames that carry metadata,
\* none of them counted as a mismatch.
C13_Witness ==
  /\ pc = "done"
  /\ toggle_idx = NumToggles
  /\ result.success
  /\ result.metadata_errors = 0
  /\ result.total_frames >= NumToggles * FramesPerState
  /\ \A i \in 1..Len(delivered) : delivered[i] # NoMeta

\* C14 (as claimed): the steady-state check passes only if num_frames frames
\* were collected and every one of them was verified as matching.  The helper
\* scores whatever arrived before its timeout and the test compares matches
\* with the number scored, so a session that delivered fewer frames (or none)
\* passes.
C14_PassNeedsAllFrames ==
  (s_pc = "done" /\ depth_profile # "None" /\ check_passed = "pass") =>
    /\ frames_checked = num_frames
    /\ metadata_matches = num_frames

\* C15 (as claimed): when no matching stream profile exists the steady-state
\* scenario is skipped: no session is opened and no check, passing or failing,
\* is recorded for it.  The helper returns (0, 0) and the test then records
\* test.check(matches == total), which passes.
C15_NoProfileSkipped ==
  depth_profile = "None" =>
    /\ sensor = "Closed"
    /\ (s_pc = "done" => check_passed = "none")

\* C20: count_gap_spikes returns the number of indices i with
\* max(1, start + 1) <= i < len(ts) whose gap ts[i] - ts[i-1] is strictly
\* greater than T * (1 + pct/100); a gap equal to the threshold is no spike.
C20_SpikeCount ==
  t_pc = "spikes_done" =>
    spike_count =
      Cardinality({i \in 1..(Len(frame_timestamps) - 1) :
                     /\ i >= start_idx + 1
                     /\ ~((frame_timestamps[i + 1] - frame_timestamps[i]) * 100
                            <= frame_time_ms * (100 + spike_threshold_percent))})

\* C20 witness: ts = [0, 10, 20, 35, 40], T = 10, pct = 10 gives exactly 1.
C20_Witness ==
  /\ t_pc = "spikes_done"
  /\ frame_timestamps = <<0, 10, 20, 35, 40>>
  /\ frame_time_ms = 10
  /\ spike_threshold_percent = 10
  /\ start_idx = 0
  /\ spike_count = 1

\* C16: with M iterations the adjusted spike count is max(0, raw - 2 * M),
\* never negative, and the check against the ceiling is made on the rate of
\* that adjusted count over the adjusted gaps.
C16_AdjustedSpikes ==
  checks # <<>> =>
    /\ unexpected_spikes >= 0
    /\ unexpected_spikes = IF total_spike_count >= 2 * num_iterations
                             THEN total_spike_count - 2 * num_iterations
                             ELSE 0
    /\ checks[2] = (unexpected_spikes * 100
                      < MAX_ACCEPTABLE_SPIKE_RATE_PERCENT * adjusted_gaps)

\* C16 witness: M = 20 iterations and a raw count of 42 give 2 unexpected spikes.
C16_Witness ==
  /\ checks # <<>>
  /\ num_iterations = 20
  /\ total_spike_count = 42
  /\ unexpected_spikes = 2

\* C17 (as claimed): every gap added to the average frame time ends at a
\* frame that arrived after the switch back to auto exposure and after the
\* frames_to_skip_after_switch transition frames that follow the switch.
\* The loop starts from the count read before the switch was requested, so
\* frames that arrive between that read and the request shift the window.
C17_AverageOverAutoWindow ==
  [][(t_pc = "m_gap" /\ ae_frame_time_count' > ae_frame_time_count) =>
       gap_i >= switched_at + frames_to_skip_after_switch]_vars

\* The manual-to-AE test failed: one of its test.check calls recorded a
\* failure, or an exception left the test.
ManualTestFailed ==
  \/ exception \in {"IndexError", "propagated"}
  \/ \E k \in 1..Len(checks) : ~checks[k]

\* C18 (as claimed): in the manual-to-AE test a frame whose AUTO_EXPOSURE
\* metadata disagrees with the state in force makes the test fail: here a frame
\* that arrived after the last switch to auto exposure and reports 0.  The
\* test never looks at the metadata log, so such a frame changes no check.
C18_MismatchFailsScenario ==
  (t_pc = "done"
     /\ \E i \in (switched_at + 1)..Len(delivered) : delivered[i] = <<0>>)
    => ManualTestFailed

\* C19 (as claimed): if frames stop arriving during a hold of the
\* manual-to-AE test after at least one frame was received, the test fails:
\* here no frame arrives after the last switch to auto exposure.  The test only
\* checks frame_count > 0 and the adjusted spike rate, which a stall leaves
\* untouched.
C19_StallFailsScenario ==
  (t_pc = "done" /\ iteration = num_iterations
     /\ frame_count >= 1 /\ Len(delivered) = switched_at)
    => ManualTestFailed

\* One of the three tests of test-depth-ae-toggle.py has reached its end.
TestEnded == pc = "done" \/ t_pc = "done"

\* C12: the session is Closed until a test opens and starts it and is Closed
\* again when the test ends, on the timeout paths and on normal completion;
\* the RuntimeError of the repeated stop()/close() after the rapid-toggle
\* timeout path is swallowed, and no teardown error leaves a test.
C12_SessionClosedOnExit ==
  /\ sensor \in {"Closed", "Started"}
  /\ exception # "propagated"
  /\ TestEnded => sensor = "Closed"
  /\ (pc = "done" /\ toggle_idx < NumToggles) => exception = "swallowed"
  /\ (t_pc = "done" /\ exception = "none") => Len(checks) >= 1

\* C12 witness: the rapid-toggle scenario returned through a barrier timeout
\* and its finally block; the second stop() raised and was swallowed.
C12_Witness ==
  /\ pc = "done"
  /\ toggle_idx < NumToggles
  /\ ~result.success
  /\ sensor = "Closed"
  /\ exception = "swallowed"

\* The gaps calculate_average_frame_time keeps: the 0-based indices from
\* max(1, start + 1) on whose gap does not exceed the threshold (every such
\* index when frame_time_ms is not supplied).
KeptGaps ==
  {i \in 1..(Len(frame_timestamps) - 1) :
     /\ i >= start_idx + 1
     /\ frame_time_supplied =>
          (frame_timestamps[i + 1] - frame_timestamps[i]) * 100
             <= frame_time_ms * (100 + spike_threshold_percent)}

\* The sum of the gaps ending at the indices in `indices`.
RECURSIVE GapSum(_)
GapSum(indices) ==
  IF indices = {} THEN 0
  ELSE LET i == CHOOSE j \in indices : TRUE
       IN (frame_timestamps[i + 1] - frame_timestamps[i]) + GapSum(indices \ {i})

\* C21: calculate_average_frame_time leaves every gap above the threshold out
\* of both its sum and its count, averages the remaining gaps from index
\* max(1, start + 1) on, and returns 0 with fewer than two timestamps or when
\* no gap remains.
C21_FilteredAverage ==
  t_pc = "average_done" =>
    /\ average.count = Cardinality(KeptGaps)
    /\ average.total_time = GapSum(KeptGaps)
    /\ average.value = IF KeptGaps = {} THEN <<0, 1>>
                       ELSE <<GapSum(KeptGaps), Cardinality(KeptGaps)>>

\* C21 witness: gaps [10, 10, 15, 5] with threshold 11 give 25 over 3.
C21_Witness ==
  /\ t_pc = "average_done"
  /\ frame_timestamps = <<0, 10, 20, 35, 40>>
  /\ frame_time_supplied /\ frame_time_ms = 10 /\ spike_threshold_percent = 10
  /\ start_idx = 0
  /\ average.value = <<25, 3>>

\* C30 (as claimed): for the same arguments the spike count plus the
\* average's gap count equals len(ts) - max(1, start + 1) whenever
\* len(ts) >= 2.  With start >= len(ts) both loops are empty and the two
\* counts add up to 0, not to the negative difference.
C30_CountsAddUpToDifference ==
  (t_pc = "average_done" /\ frame_time_supplied /\ Len(frame_timestamps) >= 2) =>
    spike_count + average.count = Len(frame_timestamps) - Max(1, start_idx + 1)

\* C30 (amended): for the same arguments every gap index of the range
\* [max(1, start + 1), len(ts)) is counted by exactly one of the two
\* functions, so the spike count plus the average's gap count equals the
\* size of that range: len(ts) - max(1, start + 1), or 0 when the range is empty.
C30_SpikesAndAveragePartition ==
  (t_pc = "average_done" /\ frame_time_supplied) =>
    spike_count + average.count =
      IF Len(frame_timestamps) > Max(1, start_idx + 1)
        THEN Len(frame_timestamps) - Max(1, start_idx + 1)
        ELSE 0

\* C30 witness: [0, 10, 20, 35, 40] from start 1: three gaps, one spike and
\* two averaged.
C30_Witness ==
  /\ t_pc = "average_done"
  /\ frame_time_supplied /\ frame_time_ms = 10 /\ spike_threshold_percent = 10
  /\ frame_timestamps = <<0, 10, 20, 35, 40>>
  /\ start_idx = 1
  /\ spike_count = 1
  /\ average.count = 2

\* C22: frame_count, frame_timestamps and frame_ae_metadata change only in a
\* step of frame_callback: the counter in its first statement, the timestamp
\* log in its second and the metadata log in its last.  No step of
\* wait_for_frames, the verifier, the timing helpers or a scenario loop
\* changes any of them.
C22_OnlyCallbackWrites ==
  [][/\ frame_count' # frame_count =>
          (cb_pc = "idle" /\ cb_pc' = "timestamp")
     /\ frame_timestamps' # frame_timestamps =>
          (cb_pc = "timestamp" /\ cb_pc' = "metadata")
     /\ frame_ae_metadata' # frame_ae_metadata =>
          (cb_pc = "metadata" /\ cb_pc' = "idle")
     /\ (pc' # pc \/ t_pc' # t_pc \/ w_pc' # w_pc \/ v_pc' # v_pc) =>
          UNCHANGED ctx_vars
    ]_vars

\* C22 witness: the averaging loop of the manual-to-AE test reading a
\* timestamp log of three entries while the callback is between statements.
C22_Witness ==
  /\ t_pc = "m_gap"
  /\ gap_i < gap_end
  /\ Len(frame_timestamps) >= 3
  /\ cb_pc = "metadata"

\* C23: in test-depth-ae-metadata the first rapid-toggle run executes with
\* auto_exposure_mode at its default (REGULAR) value and only the repeated run
\* executes in ACCELERATED mode, whether or not the option is supported.
C23_FirstRunInDefaultMode ==
  /\ first_run_mode \in {"none", "REGULAR"}
  /\ repeat_run_mode \in {"none", "ACCELERATED"}

\* The state iteration i of the rapid-toggle loop expects: True for even i.
ExpectedInIteration(i) == i % 2 = 0

BarrierTimedOut == pc \in {"fail_stop", "fail_return"}

C26_NoIndexOutOfBounds ==
  /\ exception # "IndexError"
  /\ (t_pc = "m_gap" /\ gap_i < gap_end) => gap_i < Len(frame_timestamps)

\* C27: if a state-change request raises at any point of a scenario that has
\* an open streaming session, the session is stopped and closed before the
\* scenario ends: the initial set of the rapid-toggle run and the set of the
\* baseline test included.
C27_RaisingSetClosesSession ==
  (TestEnded /\ exception = "propagated") => sensor = "Closed"

\* C28: consecutive barrier waits never share frames.  Each wait_for_frames
\* call takes the frame count at its own start as base, so once the
\* stabilization barrier and the following collection barrier have both
\* succeeded, the collection started at least frames_between_toggles frames
\* after the toggle request and at least frames_per_state more have arrived
\* since; frames by which the first barrier overshot do not count for the second.
C28_BarriersTakeFreshBases ==
  /\ (pc \in {"stabilize_wait", "collect_wait"} /\ w_pc \in {"test", "sleep", "done"}) =>
       w_frames_before >= (IF pc = "collect_wait" THEN frames_before
                           ELSE frames_before_stabilize)
  /\ (pc \in {"collect", "collect_wait", "verify", "verify_wait"} /\ toggle_idx > 0) =>
       frame_count >= frames_before_stabilize + FramesBetweenToggles
  /\ (pc \in {"verify", "verify_wait"} /\ toggle_idx > 0) =>
       /\ frames_before >= frames_before_stabilize + FramesBetweenToggles
       /\ frame_count >= frames_before + FramesPerState
       /\ frame_count >= frames_before_stabilize
                           + FramesBetweenToggles + FramesPerState

\* Both barriers of an iteration succeeded and the stabilization barrier
\* overshot: the collection started more than frames_between_toggles frames
\* after the toggle.
C28_Witness ==
  /\ pc = "verify" /\ toggle_idx > 0
  /\ frames_before > frames_before_stabilize + FramesBetweenToggles
  /\ frame_count >= frames_before + FramesPerState

\* C29: every computed spike rate lies in [0, 100] percent and no rate
\* computation divides by zero.  The rapid-toggle and baseline rate divides the
\* spikes of the whole log by max(1, len - 1), which is at least 1 and at least
\* the spike count; in the manual-to-AE test the spikes counted so far never
\* exceed the gaps counted so far, so the final unexpected_spikes lies between
\* 0 and adjusted_gaps, and adjusted_gaps >= 1.
C29_SpikeRatesWithinBounds ==
  /\ [](count_gap_spikes(frame_timestamps, frame_time_ms,
                         spike_threshold_percent, 0)
          <= Max(1, Len(frame_timestamps) - 1))
  /\ [](t_pc = "m_gaps" =>
          total_spike_count
            <= total_gaps + Max(1, frame_count - frames_before_switch - 1))
  /\ [](t_pc \in {"m_average", "m_gap", "m_loop", "m_stats"} =>
          total_spike_count <= total_gaps)
  /\ [][/\ (t_pc = "b_stats" /\ t_pc' # t_pc) =>
             /\ total_gaps' >= 1
             /\ 0 <= total_spike_count' /\ total_spike_count' <= total_gaps'
        /\ (t_pc = "m_stats" /\ t_pc' # t_pc) =>
             /\ adjusted_gaps' >= 1
             /\ 0 <= unexpected_spikes' /\ unexpected_spikes' <= adjusted_gaps']_vars

\* The manual-to-AE test ended with more spikes than the expected ones, and an
\* adjusted rate above 0.
C29_Witness ==
  /\ t_pc = "done" /\ Len(checks) = 2
  /\ unexpected_spikes >= 1 /\ unexpected_spikes <= adjusted_gaps

====
